---------------------------- MODULE Spec2Model ----------------------------
(***************************************************************************)
(* Model of the multilingual i18n tool: the merge and reconciliation       *)
(* engine of I18nGenerator and the TranslationManager dispatcher (session  *)
(* cache, translation memory, backends).                                   *)
(*                                                                         *)
(* Conventions of the model.                                               *)
(*  - A dotted key "a.b" is the sequence <<"a","b">> of its dot-free       *)
(*    atoms; `${prefix}.${key}` is concatenation and key.split('.') cuts   *)
(*    the sequence into one-atom segments.  Segments of nested trees are   *)
(*    dot-free and non-empty, as the keys the scanner generates are.       *)
(*  - A JavaScript object is a sequence of entries in insertion order;     *)
(*    assigning an existing property keeps its position.                   *)
(*  - A string value is truthy iff it is not "".                           *)
(*                                                                         *)
(* Several specifications share the variables: MergeSpec (one merge of the   *)
(* source-language file), GenSpec (runs of the reconciliation of a target  *)
(* language, with translateFile) and TMSpec (calls of a                    *)
(* TranslationManager).  The network is the environment: what a backend    *)
(* answers to a request is chosen by the step that sends it.               *)
(***************************************************************************)
EXTENDS Integers, Sequences, FiniteSets, TLC

\* ------------------------------------------------------------------ bounds

MaxLeaves == 2

Atoms == {"a", "b", "c"}

\* The dotted keys the inputs are built from: a leaf/subtree conflict
\* (a against a.b, a.c), two siblings of one subtree and a free top-level key.
KeyPaths == {<<"a">>, <<"b">>, <<"a", "b">>, <<"a", "c">>}

\* Leaf values: the empty string and two distinct non-empty strings.
Values == {"", "x", "y"}

\* ------------------------------------------------------- JavaScript objects

Truthy(s) == s # ""

Leaf(seg, value) == [k |-> seg, leaf |-> TRUE, v |-> value, kids |-> <<>>]

Node(seg, children) == [k |-> seg, leaf |-> FALSE, v |-> "", kids |-> children]

HasKey(obj, seg) == \E i \in 1..Len(obj) : obj[i].k = seg

IndexOf(obj, seg) == CHOOSE i \in 1..Len(obj) : obj[i].k = seg

\* obj[seg] = entry: in place when the property exists, appended otherwise.
PutEntry(obj, entry) ==
    IF HasKey(obj, entry.k)
    THEN [obj EXCEPT ![IndexOf(obj, entry.k)] = entry]
    ELSE Append(obj, entry)

\* key.split('.')
SplitKey(key) == [i \in 1..Len(key) |-> <<key[i]>>]

\* Lexicographic order of two dotted keys, as Array.prototype.sort compares
\* the strings ('.' sorts before every letter; atoms are single letters).
AtomRank(c) == CASE c = "a" -> 1 [] c = "b" -> 2 [] c = "c" -> 3 [] OTHER -> 4

RECURSIVE KeyLess(_, _)
KeyLess(p, q) ==
    IF p = <<>> THEN q # <<>>
    ELSE IF q = <<>> THEN FALSE
    ELSE IF p[1] # q[1] THEN AtomRank(p[1]) < AtomRank(q[1])
    ELSE KeyLess(Tail(p), Tail(q))

\* ------------------------------------------------------------ I18nGenerator

RECURSIVE setNestedValue(_, _, _)
setNestedValue(obj, keys, value) ==
    IF Len(keys) = 1
    THEN PutEntry(obj, Leaf(keys[1], value))
    ELSE LET key == keys[1]
             current == IF HasKey(obj, key) /\ ~obj[IndexOf(obj, key)].leaf
                        THEN obj[IndexOf(obj, key)].kids
                        ELSE <<>>
         IN PutEntry(obj, Node(key, setNestedValue(current, Tail(keys), value)))

\* Object.assign(result, more) on flat records.
RECURSIVE AssignAll(_, _)
AssignAll(result, more) ==
    IF more = <<>> THEN result
    ELSE AssignAll(PutEntry(result, Head(more)), Tail(more))

RECURSIVE flattenObject(_, _)
flattenObject(obj, prefix) ==
    IF obj = <<>> THEN <<>>
    ELSE LET e == Head(obj)
             newKey == prefix \o e.k
             here == IF e.leaf THEN <<Leaf(newKey, e.v)>>
                     ELSE flattenObject(e.kids, newKey)
         IN AssignAll(here, flattenObject(Tail(obj), prefix))

RECURSIVE unflattenInto(_, _)
unflattenInto(result, flat) ==
    IF flat = <<>> THEN result
    ELSE unflattenInto(setNestedValue(result, SplitKey(Head(flat).k), Head(flat).v),
                       Tail(flat))

unflattenObject(flat) == unflattenInto(<<>>, flat)

\* Insertion of one entry into a list already sorted by key.
RECURSIVE InsertSorted(_, _)
InsertSorted(sorted, e) ==
    IF sorted = <<>> THEN <<e>>
    ELSE IF KeyLess(e.k, Head(sorted).k) THEN <<e>> \o sorted
    ELSE <<Head(sorted)>> \o InsertSorted(Tail(sorted), e)

RECURSIVE sortObjectKeys(_)
sortObjectKeys(obj) ==
    IF obj = <<>> THEN <<>>
    ELSE LET e == Head(obj)
             se == IF e.leaf THEN e ELSE Node(e.k, sortObjectKeys(e.kids))
         IN InsertSorted(sortObjectKeys(Tail(obj)), se)

\* ----------------------------------------------------- flat-record helpers

FlatKeys(flat) == {flat[i].k : i \in 1..Len(flat)}

FlatGet(flat, key) == flat[IndexOf(flat, key)].v

\* flat[key] is a truthy value (a missing property reads undefined).
FlatTruthy(flat, key) == HasKey(flat, key) /\ Truthy(FlatGet(flat, key))

NumLeaves(obj) == Len(flattenObject(obj, <<>>))

\* -------------------------------------------------------- mergeTranslations

\* Mutant of MergeNewLoop: a shared key keeps the existing value whatever the
\* policy says.
RECURSIVE MergeNewLoop_AlwaysPreserve(_, _, _, _)
MergeNewLoop_AlwaysPreserve(flatNew, flatExisting, preserve, acc) ==
    IF flatNew = <<>> THEN acc
    ELSE LET key == Head(flatNew).k
             next ==
                IF FlatTruthy(flatExisting, key)
                THEN [acc EXCEPT
                        !.merged = PutEntry(@, Leaf(key, FlatGet(flatExisting, key))),
                        !.unchangedKeys = @ + 1]
                ELSE [acc EXCEPT
                        !.merged = PutEntry(@, Leaf(key, Head(flatNew).v)),
                        !.newKeys = @ + 1]
         IN MergeNewLoop_AlwaysPreserve(Tail(flatNew), flatExisting, preserve, next)

\* for (const [key, value] of Object.entries(flatNew)) { ... }
RECURSIVE MergeNewLoop(_, _, _, _)
MergeNewLoop(flatNew, flatExisting, preserve, acc) ==
    IF flatNew = <<>> THEN acc
    ELSE LET key == Head(flatNew).k
             value == Head(flatNew).v
             next ==
                IF FlatTruthy(flatExisting, key)
                THEN [acc EXCEPT
                        !.merged = PutEntry(@, Leaf(key,
                                      IF preserve THEN FlatGet(flatExisting, key)
                                      ELSE value)),
                        !.unchangedKeys = @ + 1]
                ELSE [acc EXCEPT
                        !.merged = PutEntry(@, Leaf(key, value)),
                        !.newKeys = @ + 1]
         IN MergeNewLoop(Tail(flatNew), flatExisting, preserve, next)

\* Mutant of MergeRemovedLoop: removed keys are counted and pruned.
RECURSIVE MergeRemovedLoop_Prune(_, _, _, _)
MergeRemovedLoop_Prune(rest, flatNew, preserve, acc) ==
    IF rest = <<>> THEN acc
    ELSE MergeRemovedLoop_Prune(Tail(rest), flatNew, preserve,
            IF ~FlatTruthy(flatNew, Head(rest).k)
            THEN [acc EXCEPT !.removedKeys = @ + 1]
            ELSE acc)

\* for (const key of Object.keys(flatExisting)) { if (!flatNew[key]) ... }
RECURSIVE MergeRemovedLoop(_, _, _, _)
MergeRemovedLoop(rest, flatNew, preserve, acc) ==
    IF rest = <<>> THEN acc
    ELSE LET key == Head(rest).k
             next ==
                IF ~FlatTruthy(flatNew, key)
                THEN [acc EXCEPT
                        !.removedKeys = @ + 1,
                        !.merged = IF preserve
                                   THEN PutEntry(@, Leaf(key, Head(rest).v))
                                   ELSE @]
                ELSE acc
         IN MergeRemovedLoop(Tail(rest), flatNew, preserve, next)

mergeTranslations(existingTree, newTree, cfg) ==
    LET flatExisting == flattenObject(existingTree, <<>>)
        flatNew == flattenObject(newTree, <<>>)
        start == [merged |-> <<>>, newKeys |-> 0, removedKeys |-> 0,
                  unchangedKeys |-> 0]
        afterNew == MergeNewLoop(flatNew, flatExisting, cfg.preserveExisting, start)
        done == MergeRemovedLoop(flatExisting, flatNew, cfg.preserveExisting, afterNew)
        data == IF cfg.flatKeys THEN done.merged ELSE unflattenObject(done.merged)
    IN [data |-> IF cfg.sortKeys THEN sortObjectKeys(data) ELSE data,
        newKeys |-> done.newKeys,
        removedKeys |-> done.removedKeys,
        unchangedKeys |-> done.unchangedKeys]

\* stringsToObject, one extracted string at a time: the tree of the strings
\* scanned so far.  In flat-key mode the key is stored as one property.
stringsToObject(data, key, value, cfg) ==
    LET added == IF cfg.flatKeys THEN PutEntry(data, Leaf(key, value))
                 ELSE setNestedValue(data, SplitKey(key), value)
    IN IF cfg.sortKeys THEN sortObjectKeys(added) ELSE added

\* ------------------------------------------------------------------- texts

\* A text is a TLA+ string; Chars gives its characters.  The texts of
\* TextUniverse are the empty string or one character long.
TextUniverse == {"", "x", "y", "X", "Y", "T", "U"}

\* c repeated n times.
Rep(c, n) == [i \in 1..n |-> c]

\* The string of a sequence of characters.
RECURSIVE Join(_)
Join(cs) == IF cs = <<>> THEN "" ELSE Head(cs) \o Join(Tail(cs))

\* The longer texts, by their characters: a text of 20 characters and the
\* texts one to four substitutions away from it (similarity 0.95, 0.90, 0.85
\* and 0.80 to it), a text of 21 characters one insertion away from it
\* (similarity 20/21), and a text that differs from "x" by case and a blank.
LongLen == 20

LongCharSeqs ==
    {Rep("k", LongLen - d) \o Rep("j", d) : d \in 0..4}
        \cup {Rep("k", LongLen + 1), <<" ", "X">>}

LongTexts == {Join(cs) : cs \in LongCharSeqs}

\* The texts handed to the text transforms are made of at most MaxPieces
\* pieces: a letter, a blank, or an interpolation token.
MaxPieces == 3

Tokens == {"{x}", "{{x}}", "${x}", "%s", "%d"}

Pieces == {"x", " "} \cup Tokens

PieceChars(piece) ==
    CASE piece = "{x}" -> <<"{", "x", "}">>
      [] piece = "{{x}}" -> <<"{", "{", "x", "}", "}">>
      [] piece = "${x}" -> <<"$", "{", "x", "}">>
      [] piece = "%s" -> <<"%", "s">>
      [] piece = "%d" -> <<"%", "d">>
      [] OTHER -> <<piece>>

PieceSeqs == UNION {[1..n -> Pieces] : n \in 1..MaxPieces}

TransformTexts == {Join(ps) : ps \in PieceSeqs}

\* The pieces of a text (no two sequences of pieces make the same text).
PiecesOf(s) == CHOOSE ps \in PieceSeqs : Join(ps) = s

\* The concatenation of a sequence of sequences.
RECURSIVE Flatten(_)
Flatten(seqs) == IF seqs = <<>> THEN <<>> ELSE Head(seqs) \o Flatten(Tail(seqs))

Chars(s) ==
    IF s = "" THEN <<>>
    ELSE IF s \in LongTexts THEN CHOOSE cs \in LongCharSeqs : Join(cs) = s
    ELSE IF s \in TransformTexts
    THEN Flatten([i \in 1..Len(PiecesOf(s)) |-> PieceChars(PiecesOf(s)[i])])
    ELSE <<s>>

FromChars(cs) == CHOOSE s \in TextUniverse : Chars(s) = cs

LowerChar(c) ==
    CASE c = "X" -> "x" [] c = "Y" -> "y" [] c = "T" -> "t" [] c = "U" -> "u"
      [] OTHER -> c

UpperChar(c) ==
    CASE c = "x" -> "X" [] c = "y" -> "Y" [] c = "t" -> "T" [] c = "u" -> "U"
      [] c = "s" -> "S" [] c = "d" -> "D"
      [] OTHER -> c

toLowerCase(cs) == [i \in 1..Len(cs) |-> LowerChar(cs[i])]

toUpperCase(cs) == [i \in 1..Len(cs) |-> UpperChar(cs[i])]

RECURSIVE trimStart(_)
trimStart(cs) ==
    IF cs # <<>> /\ Head(cs) = " " THEN trimStart(Tail(cs)) ELSE cs

RECURSIVE trimEnd(_)
trimEnd(cs) ==
    IF cs # <<>> /\ cs[Len(cs)] = " " THEN trimEnd(SubSeq(cs, 1, Len(cs) - 1)) ELSE cs

trim(cs) == trimEnd(trimStart(cs))

Min2(m, n) == IF m <= n THEN m ELSE n

Max2(m, n) == IF m >= n THEN m ELSE n

\* ---------------------------------------------------------- text transforms

\* The character \x00 of the placeholder markers.
NUL == "\\x00"

\* `\x00${idx}\x00`, and the `\x00 ${i} \x00` that translateToMorse and
\* translateToNato look for (idx has one digit for the texts of the model).
Marker(idx) == <<NUL, ToString(idx), NUL>>

SpacedMarker(idx) == <<NUL, " ", ToString(idx), " ", NUL>>

\* The first index from `from` on at which cs has the character c, 0 if none.
FirstIndexOf(cs, c, from) ==
    IF \E j \in from..Len(cs) : cs[j] = c
    THEN CHOOSE j \in from..Len(cs) : cs[j] = c /\ \A k \in from..(j - 1) : cs[k] # c
    ELSE 0

\* \w
IsWordChar(c) == c \in {"x", "y", "s", "d", "X", "Y", "S", "D", "0", "1", "2", "_"}

\* The number of word characters from index i on.
RECURSIVE WordRun(_, _)
WordRun(cs, i) ==
    IF i <= Len(cs) /\ IsWordChar(cs[i]) THEN 1 + WordRun(cs, i + 1) ELSE 0

\* `open [^close]+ close` at index i: the length of the match, 0 if none.
Bracketed(cs, i, close) ==
    IF FirstIndexOf(cs, close, i + 1) > i + 1
    THEN FirstIndexOf(cs, close, i + 1) - i + 1
    ELSE 0

\* The length of the match of preservePattern at index i, 0 if none:
\* /(\{[^}]+\}|\{\{[^}]+\}\}|<[^>]+>|\$\{[^}]+\}|%[sd]|\$\w+)/.  The second
\* alternative never applies: where it matches, the first one matches too.
MatchLen(cs, i) ==
    CASE cs[i] = "{" -> Bracketed(cs, i, "}")
      [] cs[i] = "<" -> Bracketed(cs, i, ">")
      [] cs[i] = "$" ->
           IF i < Len(cs) /\ cs[i + 1] = "{" /\ Bracketed(cs, i + 1, "}") > 0
           THEN 1 + Bracketed(cs, i + 1, "}")
           ELSE IF WordRun(cs, i + 1) > 0 THEN 1 + WordRun(cs, i + 1) ELSE 0
      [] cs[i] = "%" -> IF i < Len(cs) /\ cs[i + 1] \in {"s", "d"} THEN 2 ELSE 0
      [] OTHER -> 0

\* text.replace(preservePattern, ...): textWithPlaceholders and preservedSegments.
RECURSIVE Preserve(_, _, _)
Preserve(cs, i, acc) ==
    IF i > Len(cs) THEN acc
    ELSE IF MatchLen(cs, i) > 0
    THEN Preserve(cs, i + MatchLen(cs, i),
                  [text |-> acc.text \o Marker(Len(acc.segments)),
                   segments |-> Append(acc.segments,
                                       SubSeq(cs, i, i + MatchLen(cs, i) - 1))])
    ELSE Preserve(cs, i + 1, [text |-> Append(acc.text, cs[i]), segments |-> acc.segments])

Preserved(cs) == Preserve(cs, 1, [text |-> <<>>, segments |-> <<>>])

OccursAt(cs, pat, i) == i + Len(pat) - 1 <= Len(cs) /\ SubSeq(cs, i, i + Len(pat) - 1) = pat

\* The first index from `from` on at which pat occurs in cs, 0 if none.
FindFrom(cs, pat, from) ==
    IF \E i \in from..Len(cs) : OccursAt(cs, pat, i)
    THEN CHOOSE i \in from..Len(cs) :
            OccursAt(cs, pat, i) /\ \A k \in from..(i - 1) : ~OccursAt(cs, pat, k)
    ELSE 0

\* cs.replace(pat, rep) with a string pattern: the first occurrence is
\* replaced (no segment of the model has a $ that the replacement interprets).
ReplaceFirst(cs, pat, rep) ==
    IF FindFrom(cs, pat, 1) = 0 THEN cs
    ELSE SubSeq(cs, 1, FindFrom(cs, pat, 1) - 1) \o rep
            \o SubSeq(cs, FindFrom(cs, pat, 1) + Len(pat), Len(cs))

\* for (let i = 0; i < preservedSegments.length; i++) s = s.replace(marker i, segment i)
RECURSIVE Restore(_, _, _, _)
Restore(cs, segments, i, spaced) ==
    IF i > Len(segments) THEN cs
    ELSE Restore(ReplaceFirst(cs, IF spaced THEN SpacedMarker(i - 1) ELSE Marker(i - 1),
                              segments[i]),
                 segments, i + 1, spaced)

\* for (let i = preservedSegments.length - 1; i >= 0; i--) ...
RECURSIVE RestoreDown(_, _, _)
RestoreDown(cs, segments, i) ==
    IF i < 1 THEN cs
    ELSE RestoreDown(ReplaceFirst(cs, Marker(i - 1), segments[i]), segments, i - 1)

\* s.split('').reverse().join('')
Reversed(cs) == [i \in 1..Len(cs) |-> cs[Len(cs) + 1 - i]]

\* LEET_MAP[char.toLowerCase()] || char
LEET_MAP(c) ==
    CASE LowerChar(c) = "x" -> "x" [] LowerChar(c) = "s" -> "5" [] LowerChar(c) = "d" -> "d"
      [] OTHER -> c

\* MIRROR_MAP[char] || char; a turned character is named by its code point.
MIRROR_MAP(c) ==
    CASE c = "x" -> "x" [] c = "s" -> "s" [] c = "d" -> "p"
      [] c = "0" -> "0" [] c = "1" -> "U+0196" [] c = "2" -> "U+1105"
      [] c = "{" -> "}" [] c = "}" -> "{"
      [] OTHER -> c

\* MORSE_CODE[char] || char, as characters.
MORSE_CODE(c) ==
    CASE c = "x" -> <<"-", ".", ".", "-">> [] c = "s" -> <<".", ".", ".">>
      [] c = "d" -> <<"-", ".", ".">> [] c = " " -> <<"/">>
      [] c = "0" -> <<"-", "-", "-", "-", "-">>
      [] c = "1" -> <<".", "-", "-", "-", "-">>
      [] c = "2" -> <<".", ".", "-", "-", "-">>
      [] OTHER -> <<c>>

\* The word pushed for a character by translateToNato.
NATO_ALPHABET(c) ==
    CASE c = " " -> <<"/">>
      [] c = "x" -> <<"X", "-", "r", "a", "y">> [] c = "s" -> <<"S", "i", "e", "r", "r", "a">>
      [] c = "d" -> <<"D", "e", "l", "t", "a">> [] c = "0" -> <<"Z", "e", "r", "o">>
      [] c = "1" -> <<"O", "n", "e">> [] c = "2" -> <<"T", "w", "o">>
      [] OTHER -> <<c>>

\* words.join(' ')
RECURSIVE JoinSpaced(_)
JoinSpaced(words) ==
    IF words = <<>> THEN <<>>
    ELSE IF Len(words) = 1 THEN Head(words)
    ELSE Head(words) \o <<" ">> \o JoinSpaced(Tail(words))

\* The transforms on the characters of the text handed to them.
UppercaseOf(p) == Restore(toUpperCase(p.text), p.segments, 1, FALSE)

LeetOf(p) == Restore([i \in 1..Len(p.text) |-> LEET_MAP(p.text[i])], p.segments, 1, FALSE)

ReverseOf(p) == RestoreDown(Reversed(p.text), p.segments, Len(p.segments))

MirrorOf(p) ==
    Restore(Reversed([i \in 1..Len(p.text) |-> MIRROR_MAP(p.text[i])]), p.segments, 1, FALSE)

\* No word pushed is empty or a blank, so join(' ') puts no two blanks side
\* by side and .replace(/  +/g, ' / ') changes nothing.
MorseOf(p) ==
    Restore(JoinSpaced([i \in 1..Len(p.text) |-> MORSE_CODE(LowerChar(p.text[i]))]),
            p.segments, 1, TRUE)

NatoOf(p) ==
    Restore(JoinSpaced([i \in 1..Len(p.text) |-> NATO_ALPHABET(LowerChar(p.text[i]))]),
            p.segments, 1, TRUE)

translateToLeet(text) == Join(LeetOf(Preserved(Chars(text))))

translateToReverse(text) == Join(ReverseOf(Preserved(Chars(text))))

translateToMirror(text) == Join(MirrorOf(Preserved(Chars(text))))

translateToMorse(text) == Join(MorseOf(Preserved(Chars(text))))

translateToNato(text) == Join(NatoOf(Preserved(Chars(text))))

\* ------------------------------------------------------ translation memory

\* 0.85, the default fuzzyThreshold of lookupInMemory, and 0.95, the
\* similarity translate() asks of a memory match, in hundredths.
FuzzyThresholdPct == 85

AcceptThresholdPct == 95

\* matrix[i][j] from the row above (prev[j+1] is matrix[i-1][j]) and the
\* cells to its left (row[j+1] is matrix[i][j]); bch is b.charAt(i - 1).
Cell(prev, row, a, bch, j) ==
    IF bch = a[j] THEN prev[j]
    ELSE Min2(prev[j] + 1, Min2(row[j] + 1, prev[j + 1] + 1))

\* The inner loop over j: the row matrix[i], which starts as [i].
RECURSIVE LevRow(_, _, _, _)
LevRow(prev, a, bch, row) ==
    IF Len(row) > Len(a) THEN row
    ELSE LevRow(prev, a, bch, Append(row, Cell(prev, row, a, bch, Len(row))))

\* The outer loop over i: rows[i+1] is matrix[i].
RECURSIVE LevRows(_, _, _)
LevRows(rows, a, b) ==
    IF Len(rows) > Len(b) THEN rows
    ELSE LevRows(Append(rows, LevRow(rows[Len(rows)], a, b[Len(rows)], <<Len(rows)>>)),
                 a, b)

\* matrix[b.length][a.length]
editDistance(a, b) ==
    LevRows(<<[j \in 1..(Len(a) + 1) |-> j - 1]>>, a, b)[Len(b) + 1][Len(a) + 1]

\* The similarity 1 - distance/maxLen as the fraction num/den.
calculateSimilarity(a, b) ==
    IF a = b THEN [num |-> 1, den |-> 1]
    ELSE IF Len(a) = 0 \/ Len(b) = 0 THEN [num |-> 0, den |-> 1]
    ELSE LET maxLen == Max2(Len(a), Len(b))
         IN [num |-> maxLen - editDistance(a, b), den |-> maxLen]

\* Mutant of AtLeastPct: the threshold itself is not enough.
AtLeastPct_Strict(sim, pct) == sim.num * 100 > pct * sim.den

\* similarity >= pct/100 and similarity > pct/100
AtLeastPct(sim, pct) == sim.num * 100 >= pct * sim.den

MoreThanPct(sim, pct) == sim.num * 100 > pct * sim.den

NoMatch == [found |-> FALSE, translation |-> "", similarity |-> [num |-> 0, den |-> 1]]

\* text.toLowerCase().trim()
Normalized(text) == trim(toLowerCase(Chars(text)))

Match(entry, similarity) ==
    [found |-> TRUE, translation |-> entry.target, similarity |-> similarity]

\* The fuzzy match of one entry, given its similarity to the text.
FuzzyMatch(entry, similarity, fuzzyThreshold) ==
    IF AtLeastPct(similarity, fuzzyThreshold) THEN Match(entry, similarity) ELSE NoMatch

\* The body of the loop for one entry: what it returns, if it returns.
EntryMatch(entry, normalizedText, normalizedSource, targetLang, sourceLang, fuzzyThreshold) ==
    IF entry.sourceLang = sourceLang /\ entry.targetLang = targetLang
    THEN IF normalizedSource = normalizedText
         THEN Match(entry, [num |-> 1, den |-> 1])
         ELSE FuzzyMatch(entry, calculateSimilarity(normalizedText, normalizedSource),
                         fuzzyThreshold)
    ELSE NoMatch

\* Mutant of FirstMatch: a later matching entry wins.
FirstMatch_Last(match, rest) == IF rest.found THEN rest ELSE match

\* The loop returns at the first entry that matches.
FirstMatch(match, rest) == IF match.found THEN match ELSE rest

RECURSIVE LookupLoop(_, _, _, _, _)
LookupLoop(entries, normalizedText, targetLang, sourceLang, fuzzyThreshold) ==
    IF entries = <<>> THEN NoMatch
    ELSE FirstMatch(
             EntryMatch(Head(entries), normalizedText, Normalized(Head(entries).source),
                        targetLang, sourceLang, fuzzyThreshold),
             LookupLoop(Tail(entries), normalizedText, targetLang, sourceLang,
                        fuzzyThreshold))

lookupInMemory(entries, text, targetLang, sourceLang, fuzzyThreshold) ==
    LookupLoop(entries, Normalized(text), targetLang, sourceLang, fuzzyThreshold)

\* Mutant of addToMemory: the entry is pushed without the duplicate check.
addToMemory_NoCheck(entries, source, target, sourceLang, targetLang, service) ==
    Append(entries, [source |-> source, target |-> target, sourceLang |-> sourceLang,
                     targetLang |-> targetLang, service |-> service])

\* The timestamp of an entry is not modelled.
addToMemory(entries, source, target, sourceLang, targetLang, service) ==
    IF \E i \in 1..Len(entries) :
          /\ entries[i].source = source
          /\ entries[i].targetLang = targetLang
          /\ entries[i].sourceLang = sourceLang
    THEN entries
    ELSE Append(entries, [source |-> source, target |-> target,
                          sourceLang |-> sourceLang, targetLang |-> targetLang,
                          service |-> service])

\* importTranslationMemory(tm): the entries of tm that the store, as it grows,
\* does not hold yet are pushed in order.
RECURSIVE importTranslationMemory(_, _)
importTranslationMemory(entries, tm) ==
    IF tm = <<>> THEN entries
    ELSE importTranslationMemory(
             IF \E i \in 1..Len(entries) :
                   /\ entries[i].source = Head(tm).source
                   /\ entries[i].targetLang = Head(tm).targetLang
                   /\ entries[i].sourceLang = Head(tm).sourceLang
             THEN entries
             ELSE Append(entries, Head(tm)),
             Tail(tm))

\* ----------------------------------------------------------- session cache

\* cache[`${source}:${text}`][targetLanguage], keyed here by the triple.
CacheKey(source, text, targetLanguage) == <<source, text, targetLanguage>>

CacheHit(c, source, text, targetLanguage) ==
    /\ CacheKey(source, text, targetLanguage) \in DOMAIN c
    /\ Truthy(c[CacheKey(source, text, targetLanguage)])

\* Mutant of CachePut: the translation is not stored.
CachePut_Drop(c, source, text, targetLanguage, value) == c

CachePut(c, source, text, targetLanguage, value) ==
    [key \in DOMAIN c \cup {CacheKey(source, text, targetLanguage)} |->
        IF key = CacheKey(source, text, targetLanguage) THEN value ELSE c[key]]

EmptyCache == [key \in {} |-> ""]

\* ---------------------------------------------------------------- backends

\* The backends of the model: the batch-capable metered API, a metered API
\* without batch support, a deterministic text transform, and no service.
Services == {"deepl", "google", "uppercase", "none"}

Success(text, cached) == [success |-> TRUE, text |-> text, error |-> "", cached |-> cached]

Failure(error) == [success |-> FALSE, text |-> "", error |-> error, cached |-> FALSE]

Returned(text, sent) == [threw |-> FALSE, text |-> text, error |-> "", sent |-> sent]

Threw(error, sent) == [threw |-> TRUE, text |-> "", error |-> error, sent |-> sent]

\* What the network answers to one request: the request fails (axios throws,
\* error.message) or the response carries a text, possibly empty or missing.
\* status is the HTTP status of a failed request, 0 when no response arrived;
\* error is the message of the error axios throws.
HttpError(status) ==
    [ok |-> FALSE, text |-> "", status |-> status,
     error |-> IF status = 0 THEN "Network Error"
               ELSE "Request failed with status code " \o ToString(status)]

Answer(text) == [ok |-> TRUE, text |-> text, status |-> 200, error |-> ""]

translateWithDeepL_NoKeyCheck(apiKey, resp) ==
    IF ~resp.ok THEN Threw(resp.error, TRUE)
    ELSE IF Truthy(resp.text) THEN Returned(resp.text, TRUE)
    ELSE Threw("Invalid response from DeepL", TRUE)

translateWithDeepL(apiKey, resp) ==
    IF ~apiKey THEN Threw("DeepL API key not configured", FALSE)
    ELSE IF ~resp.ok THEN Threw(resp.error, TRUE)
    ELSE IF Truthy(resp.text) THEN Returned(resp.text, TRUE)
    ELSE Threw("Invalid response from DeepL", TRUE)

translateWithGoogle(apiKey, resp) ==
    IF ~apiKey THEN Threw("Google Cloud Translation API key not configured", FALSE)
    ELSE IF ~resp.ok THEN Threw(resp.error, TRUE)
    ELSE IF Truthy(resp.text) THEN Returned(resp.text, TRUE)
    ELSE Threw("Invalid response from Google Translate", TRUE)

translateToUppercase(text) == Join(UppercaseOf(Preserved(Chars(text))))

\* The state of a TranslationManager as a record.
Manager(c, m, ext, svc, key) ==
    [cache |-> c, memory |-> m, extendedService |-> ext,
     translationService |-> svc, apiKey |-> key]

\* One backend invocation: the texts handed to the service in one go.
Request(service, source, texts, targetLanguage) ==
    [service |-> service, source |-> source, texts |-> texts, target |-> targetLanguage]

\* The backend of the switch in translate, on the request's answer resp.
CallBackend(service, apiKey, text, resp) ==
    CASE service = "deepl" -> translateWithDeepL(apiKey, resp)
      [] service = "google" -> translateWithGoogle(apiKey, resp)
      [] service = "uppercase" -> Returned(translateToUppercase(text), TRUE)
      [] service = "leet" -> Returned(translateToLeet(text), TRUE)
      [] service = "reverse" -> Returned(translateToReverse(text), TRUE)
      [] service = "mirror" -> Returned(translateToMirror(text), TRUE)
      [] service = "morse" -> Returned(translateToMorse(text), TRUE)
      [] service = "nato" -> Returned(translateToNato(text), TRUE)
      [] OTHER -> Threw("No translation service configured", FALSE)

\* The backend invocations of one translate call.
RequestsOf(outcome, service, source, text, targetLanguage) ==
    IF outcome.sent THEN <<Request(service, source, <<text>>, targetLanguage)>>
    ELSE <<>>

\* The public instances of the keyless backends, tried in this order; a
\* configured apiKey is taken as the URL of the one instance to use.
libreTranslateInstances ==
    <<"https://libretranslate.de", "https://translate.terraprint.co",
      "https://trans.zillyhuhn.com", "https://libretranslate.pussthecat.org">>

lingvaInstances ==
    <<"https://lingva.ml", "https://translate.plausibility.cloud", "https://lingva.lunar.icu">>

Instances(service, apiKey) ==
    IF apiKey THEN <<"this.config.apiKey">>
    ELSE IF service = "libretranslate" THEN libreTranslateInstances
    ELSE lingvaInstances

\* What a keyless backend does: tried are the instances it has requested.
ReturnedBy(text, tried) ==
    [threw |-> FALSE, text |-> text, error |-> "", sent |-> TRUE, tried |-> tried]

ThrewAfter(error, tried) ==
    [threw |-> TRUE, text |-> "", error |-> error, sent |-> tried # <<>>, tried |-> tried]

\* Mutant of TryInstances: the first error is kept, not the last.
RECURSIVE TryInstances_FirstError(_, _, _, _, _)
TryInstances_FirstError(instances, resps, i, lastError, exhausted) ==
    IF i > Len(instances)
    THEN ThrewAfter(IF lastError # "" THEN lastError ELSE exhausted, instances)
    ELSE IF resps[i].ok /\ Truthy(resps[i].text)
    THEN ReturnedBy(resps[i].text, SubSeq(instances, 1, i))
    ELSE TryInstances_FirstError(instances, resps, i + 1,
             IF ~resps[i].ok /\ lastError = "" THEN resps[i].error ELSE lastError,
             exhausted)

\* for (const instance of instances): the i-th instance is requested and
\* answers resps[i]; a text returns, an error is kept in lastError ("" is
\* null), an answer without text goes on to the next instance.
RECURSIVE TryInstances(_, _, _, _, _)
TryInstances(instances, resps, i, lastError, exhausted) ==
    IF i > Len(instances)
    THEN ThrewAfter(IF lastError # "" THEN lastError ELSE exhausted, instances)
    ELSE IF resps[i].ok /\ Truthy(resps[i].text)
    THEN ReturnedBy(resps[i].text, SubSeq(instances, 1, i))
    ELSE TryInstances(instances, resps, i + 1,
                      IF ~resps[i].ok THEN resps[i].error ELSE lastError, exhausted)

translateWithLibreTranslate(apiKey, resps) ==
    TryInstances(Instances("libretranslate", apiKey), resps, 1, "",
                 "All LibreTranslate instances failed")

translateWithLingva(apiKey, resps) ==
    TryInstances(Instances("lingva", apiKey), resps, 1, "", "All Lingva instances failed")

\* translate once the backend has answered: the catch block, or the writes to
\* the cache and to the memory.
Complete(mgr, text, targetLanguage, source, service, outcome) ==
    IF outcome.threw
    THEN [mgr |-> mgr,
          requests |-> RequestsOf(outcome, service, source, text, targetLanguage),
          result |-> Failure(outcome.error)]
    ELSE [mgr |-> [mgr EXCEPT
                     !.cache = CachePut(@, source, text, targetLanguage, outcome.text),
                     !.memory = addToMemory(@, text, outcome.text, source,
                                            targetLanguage, service)],
          requests |-> RequestsOf(outcome, service, source, text, targetLanguage),
          result |-> Success(outcome.text, FALSE)]

\* translate from the cache check on; memoryMatch is what lookupInMemory
\* answers and outcome what the backend does when they are reached.
Dispatch(mgr, text, targetLanguage, source, service, memoryMatch, outcome) ==
    IF CacheHit(mgr.cache, source, text, targetLanguage)
    THEN [mgr |-> mgr, requests |-> <<>>,
          result |-> Success(mgr.cache[CacheKey(source, text, targetLanguage)], TRUE)]
    ELSE IF source = targetLanguage
    THEN [mgr |-> mgr, requests |-> <<>>, result |-> Success(text, FALSE)]
    ELSE IF memoryMatch.found
            /\ MoreThanPct(memoryMatch.similarity, AcceptThresholdPct)
    THEN [mgr |-> [mgr EXCEPT !.cache = CachePut(@, source, text, targetLanguage,
                                                 memoryMatch.translation)],
          requests |-> <<>>,
          result |-> Success(memoryMatch.translation, TRUE)]
    ELSE IF service \notin {"deepl", "google", "libretranslate", "lingva", "uppercase",
                             "leet", "reverse", "mirror", "morse", "nato"}
    THEN [mgr |-> mgr, requests |-> <<>>,
          result |-> Failure("No translation service configured")]
    ELSE Complete(mgr, text, targetLanguage, source, service, outcome)

\* this.extendedService || this.config.translationService
ServiceOf(mgr) ==
    IF mgr.extendedService # "" THEN mgr.extendedService ELSE mgr.translationService

\* translate(text, targetLanguage, source): the manager afterwards, the result
\* and the backend invocations made (a request sent to a network backend or a
\* transform applied); resp is the network's answer should a request be sent.
translate(mgr, text, targetLanguage, source, resp) ==
    Dispatch(mgr, text, targetLanguage, source, ServiceOf(mgr),
             lookupInMemory(mgr.memory, text, targetLanguage, source, FuzzyThresholdPct),
             CallBackend(ServiceOf(mgr), mgr.apiKey, text, resp))

\* ----------------------------------------------------------- batch dispatch

\* DeepL takes up to 50 texts in one request.
batchSize == 50

\* The answer to one batch request: a failure, or a response whose
\* translations array may be missing or shorter than the batch.
BatchFailed(status) ==
    [ok |-> FALSE, hasTranslations |-> FALSE, translations |-> <<>>, status |-> status]

\* A failed batch request whose response body carries a message.
BatchFailedWith(status, message) ==
    [ok |-> FALSE, hasTranslations |-> FALSE, translations |-> <<>>, status |-> status,
     message |-> message]

BatchAnswer(translations) ==
    [ok |-> TRUE, hasTranslations |-> TRUE, translations |-> translations, status |-> 200]

BatchAnswerWithoutTranslations ==
    [ok |-> TRUE, hasTranslations |-> FALSE, translations |-> <<>>, status |-> 200]

handleApiError(resp, service) ==
    LET name == CASE service = "deepl" -> "DEEPL" [] service = "google" -> "GOOGLE"
                  [] OTHER -> service
    IN CASE resp.status \in {401, 403} -> name \o " API key is invalid or expired"
         [] resp.status = 429 -> name \o " rate limit exceeded. Please try again later."
         [] resp.status = 456 -> name \o " quota exceeded. Please check your plan limits."
         [] resp.status \in {500, 503} -> name \o " service temporarily unavailable"
         [] resp.status = 0 -> "Network error: Unable to reach " \o name \o " API"
         [] "message" \in DOMAIN resp /\ Truthy(resp.message) -> resp.message
         [] OTHER -> name \o " error: " \o ToString(resp.status)

\* results.set(key, value) on a Map, as a function on the keys set so far.
MapSet(map, key, value) ==
    [k \in DOMAIN map \cup {key} |-> IF k = key THEN value ELSE map[k]]

EmptyMap == [k \in {} |-> Failure("")]

\* Mutant of Batches: the texts are not chunked.
Batches_Whole(texts) == IF texts = <<>> THEN <<>> ELSE <<texts>>

\* texts.slice(i, i + batchSize) for i = 0, batchSize, ...
RECURSIVE Batches(_)
Batches(texts) ==
    IF texts = <<>> THEN <<>>
    ELSE IF Len(texts) <= batchSize THEN <<texts>>
    ELSE <<SubSeq(texts, 1, batchSize)>> \o Batches(SubSeq(texts, batchSize + 1, Len(texts)))

\* The texts of a list.
TextsIn(texts) == {texts[i] : i \in 1..Len(texts)}

\* The last index from index on at which the batch has the text.
LastIndexOf(batch, text, index, last) ==
    CHOOSE i \in index..last :
        batch[i] = text /\ \A j \in (i + 1)..last : batch[j] # text

\* response.data.translations.forEach((translation, index) => results.set(batch[index], ...)):
\* a text set more than once keeps what was set last.
SetTranslationsUpTo(results, batch, translations, index, last) ==
    [k \in DOMAIN results \cup TextsIn(SubSeq(batch, index, last)) |->
        IF k \in TextsIn(SubSeq(batch, index, last))
        THEN Success(translations[LastIndexOf(batch, k, index, last)], FALSE)
        ELSE results[k]]

SetTranslations(results, batch, translations, index) ==
    SetTranslationsUpTo(results, batch, translations, index,
                        Min2(Len(translations), Len(batch)))

\* for (const text of batch) results.set(text, {success: false, error})
SetFailures(results, batch, error) ==
    [k \in DOMAIN results \cup TextsIn(batch) |->
        IF k \in TextsIn(batch) THEN Failure(error) ELSE results[k]]

\* The loop over the batches; bresps[k] answers the k-th batch request.
RECURSIVE DeepLBatchLoop(_, _, _, _)
DeepLBatchLoop(batches, bresps, k, acc) ==
    IF k > Len(batches) THEN acc
    ELSE LET batch == batches[k]
             resp == bresps[k]
             results ==
                IF ~resp.ok
                THEN SetFailures(acc.results, batch, handleApiError(resp, "deepl"))
                ELSE IF resp.hasTranslations
                THEN SetTranslations(acc.results, batch, resp.translations, 1)
                ELSE acc.results
         IN DeepLBatchLoop(batches, bresps, k + 1,
                [results |-> results, requests |-> Append(acc.requests, batch)])

batchTranslateDeepL(texts, apiKey, bresps) ==
    IF ~apiKey
    THEN [results |-> SetFailures(EmptyMap, texts, "DeepL API key not configured"),
          requests |-> <<>>]
    ELSE DeepLBatchLoop(Batches(texts), bresps, 1,
                        [results |-> EmptyMap, requests |-> <<>>])

\* The texts of the call that miss the cache, in order.
Uncached(c, texts, targetLanguage, source) ==
    SelectSeq(texts, LAMBDA text : ~CacheHit(c, source, text, targetLanguage))

\* results.set(text, cached result) for the texts that hit the cache.
CachedResults(c, texts, targetLanguage, source) ==
    [text \in {t \in TextsIn(texts) : CacheHit(c, source, t, targetLanguage)} |->
        Success(c[CacheKey(source, text, targetLanguage)], TRUE)]

\* The texts of the batch results that are cached: successful and non-empty.
Cacheable(batchResults, todo) ==
    {t \in todo : batchResults[t].success /\ Truthy(batchResults[t].text)}

\* The cache with the given texts of the batch results written.
CacheWritten(c, batchResults, texts, targetLanguage, source) ==
    [key \in DOMAIN c \cup {CacheKey(source, t, targetLanguage) : t \in texts} |->
        IF \E t \in texts : key = CacheKey(source, t, targetLanguage)
        THEN batchResults[CHOOSE t \in texts : key = CacheKey(source, t, targetLanguage)].text
        ELSE c[key]]

\* for (const [text, result] of batchResults): results.set, and the cache write
\* of a successful, non-empty text.
CacheBatchResults(c, batchResults, todo, targetLanguage, source) ==
    CacheWritten(c, batchResults, Cacheable(batchResults, todo), targetLanguage, source)

\* One turn of the sequential loop: the result of translate() is set.
SequentialStep(acc, text, one) ==
    [mgr |-> one.mgr,
     results |-> MapSet(acc.results, text, one.result),
     requests |-> acc.requests \o one.requests]

\* The sequential path: translate() for each uncached text, resps[i] answering
\* the request of the i-th one.
RECURSIVE SequentialLoop(_, _, _, _, _, _)
SequentialLoop(uncached, i, targetLanguage, source, resps, acc) ==
    IF i > Len(uncached) THEN acc
    ELSE SequentialLoop(uncached, i + 1, targetLanguage, source, resps,
            SequentialStep(acc, uncached[i],
                translate(acc.mgr, uncached[i], targetLanguage, source, resps[i])))

\* The 'deepl' branch: the results of the batch are set and cached.
BatchBranch(mgr, cached, batch, targetLanguage, source) ==
    [mgr |-> [mgr EXCEPT !.cache =
                CacheBatchResults(@, batch.results, DOMAIN batch.results,
                                  targetLanguage, source)],
     results |-> [t \in DOMAIN cached \cup DOMAIN batch.results |->
                     IF t \in DOMAIN batch.results THEN batch.results[t] ELSE cached[t]],
     requests |-> [k \in 1..Len(batch.requests) |->
                      Request("deepl", source, batch.requests[k], targetLanguage)]]

\* translateBatch once the texts are split into cached and uncached.
BatchDispatch(mgr, uncached, cached, targetLanguage, source, resps, bresps) ==
    IF uncached = <<>>
    THEN [mgr |-> mgr, results |-> cached, requests |-> <<>>]
    ELSE IF ServiceOf(mgr) = "deepl"
    THEN BatchBranch(mgr, cached, batchTranslateDeepL(uncached, mgr.apiKey, bresps),
                     targetLanguage, source)
    ELSE SequentialLoop(uncached, 1, targetLanguage, source, resps,
                        [mgr |-> mgr, results |-> cached, requests |-> <<>>])

\* translateBatch(texts, targetLanguage, source): resps answer the requests of
\* the sequential path, bresps those of the batch path.
translateBatch(mgr, texts, targetLanguage, source, resps, bresps) ==
    BatchDispatch(mgr, Uncached(mgr.cache, texts, targetLanguage, source),
                  CachedResults(mgr.cache, texts, targetLanguage, source),
                  targetLanguage, source, resps, bresps)

\* ------------------------------------------------------------------- state

VARIABLES
    pc,                 \* phase of the specification in force
    config,             \* MultilingualConfig: preserveExisting, flatKeys, sortKeys
    existing,           \* the tree loaded from the source-language file
    newData,            \* stringsToObject(strings) of the current scan
    mergeResult,        \* what mergeTranslations returned
    cache,              \* TranslationManager.cache
    memory,             \* TranslationManager.translationMemory.entries
    extendedService,    \* TranslationManager.extendedService
    translationService, \* TranslationManager.config.translationService
    apiKey,             \* whether config.apiKey is set
    lastCall,           \* the latest translate/translateBatch call and its outcome
    succeeded,          \* <<source, text, target, result text>> of the backend
                        \* translations that succeeded since the cache was cleared
    calls,              \* number of calls made
    lastLookup,         \* the latest lookupInMemory and what it returned
    tmFile,             \* the translation-memory file on disk
    memoryKind,         \* whether this.translationMemory is a document with entries
    loaded,             \* the kind of file the manager was constructed from
    flights,            \* the calls in flight, each at its await point
    lastAnswers,        \* what the network answered to the latest batch requests
    events,             \* what the call in progress did so far at its awaits
    sourceData,         \* the merged source-language data handed to reconciliation
    targetFile,         \* the tree of the target-language file on disk
    lastRun,            \* the latest reconciliation: its inputs and what it wrote
    core                \* the Multilingual instance: its configurations and latest run()

mergeVars == <<config, existing, newData, mergeResult>>

tmVars == <<cache, memory, extendedService, translationService, apiKey,
            lastCall, succeeded, calls>>

genVars == <<sourceData, targetFile, lastRun, core>>

storeVars == <<lastLookup, tmFile, memoryKind, loaded, flights, lastAnswers, events>>

vars == <<pc, mergeVars, tmVars, genVars, storeVars>>

Configs == [preserveExisting : BOOLEAN, flatKeys : BOOLEAN, sortKeys : BOOLEAN]

NoMerge == [data |-> <<>>, newKeys |-> 0, removedKeys |-> 0, unchangedKeys |-> 0]

NoCall == [op |-> "none", texts |-> <<>>, source |-> "", target |-> "",
           results |-> EmptyMap, requests |-> <<>>, threw |-> FALSE]

\* The memory file: absent, not JSON, JSON of another shape than
\* {version, entries[]}, or such a document.
AbsentFile == [kind |-> "absent", entries |-> <<>>]

UnparseableFile == [kind |-> "unparseable", entries |-> <<>>]

OtherJsonFile == [kind |-> "other", entries |-> <<>>]

DocumentFile(entries) == [kind |-> "document", entries |-> entries]

\* this.translationMemory after loadTranslationMemory(): whatever JSON.parse
\* returns, and the empty document if there is no file or reading throws.
loadTranslationMemory(file) ==
    IF file.kind \in {"absent", "unparseable"} THEN DocumentFile(<<>>)
    ELSE [kind |-> file.kind, entries |-> file.entries]

\* The file after saveTranslationMemory(): written is whether the write succeeded.
saveTranslationMemory(file, kind, entries, written) ==
    IF written THEN [kind |-> kind, entries |-> entries] ELSE file

\* The manager was constructed from this file.
Loaded(file) ==
    /\ tmFile = file
    /\ memory = loadTranslationMemory(file).entries
    /\ memoryKind = loadTranslationMemory(file).kind
    /\ loaded = file.kind
    /\ flights = <<>>
    /\ lastAnswers = <<>>
    /\ events = <<>>

\* A TranslationManager right after construction, without a memory file.
NewManager(service, key) ==
    /\ cache = EmptyCache
    /\ Loaded(AbsentFile)
    /\ extendedService = service
    /\ translationService = service
    /\ apiKey = key
    /\ lastCall = NoCall
    /\ succeeded = {}
    /\ calls = 0

NoRun == [op |-> "none", source |-> <<>>, before |-> <<>>, target |-> "",
          submitted |-> <<>>, results |-> EmptyMap, requests |-> <<>>,
          wrote |-> FALSE, written |-> <<>>]

NoLookup == [text |-> "", sourceLang |-> "", targetLang |-> "", result |-> NoMatch]

\* The fields of MultilingualConfig that select languages and backend.
DEFAULT_CONFIG == [outputDir |-> "./locales", sourceLanguage |-> "en",
                   targetLanguages |-> <<>>, translationService |-> "none", apiKey |-> ""]

NoRunResult == [called |-> FALSE, valid |-> FALSE, errors |-> {}, success |-> FALSE,
                generated |-> DEFAULT_CONFIG]

\* No Multilingual instance is under study.
NoCore == [phase |-> "none", options |-> <<>>, file |-> <<>>, package |-> <<>>,
           env |-> <<>>, managerConfig |-> DEFAULT_CONFIG, config |-> DEFAULT_CONFIG,
           components |-> DEFAULT_CONFIG, result |-> NoRunResult]

\* No target-language file has been reconciled yet, no lookup made.
NoReconciliation ==
    /\ sourceData = <<>>
    /\ targetFile = <<>>
    /\ lastRun = NoRun
    /\ lastLookup = NoLookup
    /\ core = NoCore

NoGenerator ==
    /\ config = [preserveExisting |-> TRUE, flatKeys |-> FALSE, sortKeys |-> TRUE]
    /\ existing = <<>>
    /\ newData = <<>>
    /\ mergeResult = NoMerge
    /\ NoReconciliation

\* ---------------------------------------------- specification of the merge

MergeInit ==
    /\ pc = "build"
    /\ config \in Configs
    /\ existing = <<>>
    /\ newData = <<>>
    /\ mergeResult = NoMerge
    /\ NewManager("none", FALSE)
    /\ NoReconciliation

\* The on-disk file of the source language holds any tree: one more leaf of it.
LoadExisting(key, value) ==
    /\ pc = "build"
    /\ LET t == setNestedValue(existing, SplitKey(key), value)
       IN /\ NumLeaves(t) <= MaxLeaves
          /\ existing' = t
    /\ UNCHANGED <<pc, config, newData, mergeResult, tmVars, genVars, storeVars>>

\* generate(strings) is handed one more extracted string (the list is any
\* caller's: I18nGenerator is exported).
ScanString(key, value) ==
    /\ pc = "build"
    /\ config.flatKeys => Len(key) = 1
    /\ LET t == stringsToObject(newData, key, value, config)
       IN /\ NumLeaves(t) <= MaxLeaves
          /\ newData' = t
    /\ UNCHANGED <<pc, config, existing, mergeResult, tmVars, genVars, storeVars>>

Merge ==
    /\ pc = "build"
    /\ pc' = "merged"
    /\ mergeResult' = mergeTranslations(existing, newData, config)
    /\ UNCHANGED <<config, existing, newData, tmVars, genVars, storeVars>>

MergeNext ==
    \/ \E key \in KeyPaths, value \in Values : LoadExisting(key, value)
    \/ \E key \in KeyPaths, value \in Values : ScanString(key, value)
    \/ Merge

MergeSpec == MergeInit /\ [][MergeNext]_vars

\* ------------------------------ specification of the merge of a file on disk

\* JSON.parse may give a tree with leaves that are no strings: null, a number.
NullEntry(seg) == [k |-> seg, leaf |-> FALSE, v |-> "", kids |-> <<>>, json |-> "null"]

NumberEntry(seg) == [k |-> seg, leaf |-> FALSE, v |-> "", kids |-> <<>>, json |-> "number"]

\* flattenObject(obj) throws: it recurses into every value that is no string,
\* and Object.entries(null) throws a TypeError (Object.entries of a number is
\* empty, as are the kids of a NumberEntry).
RECURSIVE FlattenThrows(_)
FlattenThrows(obj) ==
    \E i \in 1..Len(obj) :
        \/ "json" \in DOMAIN obj[i] /\ obj[i].json = "null"
        \/ ~obj[i].leaf /\ FlattenThrows(obj[i].kids)

\* What a property of the file on disk may hold.
DiskValues(seg) ==
    {Leaf(seg, "x"), NullEntry(seg), NumberEntry(seg), Node(seg, <<Leaf("b", "y")>>),
     Node(seg, <<NullEntry("b")>>)}

\* The file of the source language: absent, not JSON, or JSON of an object.
DiskFiles ==
    {[kind |-> "absent", tree |-> <<>>], [kind |-> "unparseable", tree |-> <<>>],
     [kind |-> "json", tree |-> <<>>]}
        \cup {[kind |-> "json", tree |-> <<e>>] : e \in DiskValues("a") \cup DiskValues("c")}
        \cup {[kind |-> "json", tree |-> <<e, f>>] : e \in DiskValues("a"), f \in DiskValues("c")}

\* What loadExistingTranslations returns: JSON.parse(content) as it is, and {}
\* if there is no file or reading it throws.
loadExistingTranslations(file) == IF file.kind = "json" THEN file.tree ELSE <<>>

DiskInit ==
    /\ pc = "build"
    /\ config \in Configs
    /\ \E file \in DiskFiles : existing = loadExistingTranslations(file)
    /\ newData = <<>>
    /\ mergeResult = NoMerge
    /\ NewManager("none", FALSE)
    /\ NoReconciliation

\* generate(): mergeTranslations(existingSource, sourceData) returns or throws.
MergeLoaded ==
    /\ pc = "build"
    /\ pc' = IF FlattenThrows(existing) THEN "threw" ELSE "merged"
    /\ mergeResult' = IF FlattenThrows(existing) THEN NoMerge
                      ELSE mergeTranslations(existing, newData, config)
    /\ UNCHANGED <<config, existing, newData, tmVars, genVars, storeVars>>

DiskNext ==
    \/ \E key \in {<<"a">>, <<"a", "b">>, <<"c">>}, value \in {"x", "z"} : ScanString(key, value)
    \/ MergeLoaded

DiskSpec == DiskInit /\ [][DiskNext]_vars

\* ------------------------------------ specification of the TranslationManager

MaxCalls == 2

MaxBatchLen == 2

\* <<source language, target language>> of a call.
LangPairs == {<<"en", "es">>, <<"en", "en">>}

\* The texts callers ask to translate.
SourceTexts == {"", "x"}

\* What the network may answer to a single-text request.
Responses == {Answer("T"), Answer(""), HttpError(429)}

\* What it may answer to a batch of n texts.
BatchResponses(n) ==
    {BatchFailed(429), BatchAnswerWithoutTranslations}
        \cup {BatchAnswer(ts) : ts \in UNION {[1..m -> {"T", ""}] : m \in 0..n}}

TextLists == UNION {[1..n -> SourceTexts] : n \in 1..MaxBatchLen}

Mgr == Manager(cache, memory, extendedService, translationService, apiKey)

SetCacheAndMemory(mgr) ==
    /\ cache' = mgr.cache
    /\ memory' = mgr.memory

SetManager(mgr) ==
    /\ cache' = mgr.cache
    /\ memory' = mgr.memory
    /\ UNCHANGED <<extendedService, translationService, apiKey>>

\* The texts of a call that a backend was invoked for.
Requested(requests) ==
    UNION {{requests[i].texts[j] : j \in 1..Len(requests[i].texts)} :
              i \in 1..Len(requests)}

\* The backend translations of a call that succeeded.
NewlySucceeded(results, requests, source, targetLanguage) ==
    {<<source, text, targetLanguage, results[text].text>> :
        text \in {t \in DOMAIN results \cap Requested(requests) :
                     results[t].success /\ ~results[t].cached}}

TMInit ==
    /\ pc = "tm"
    /\ NoGenerator
    /\ \E service \in Services, key \in BOOLEAN : NewManager(service, key)

\* The effects of a call: the manager afterwards and the record of the call.
Called(op, texts, targetLanguage, source, mgr, results, requests) ==
    /\ SetManager(mgr)
    /\ lastCall' = [op |-> op, texts |-> texts, source |-> source,
                    target |-> targetLanguage, results |-> results,
                    requests |-> requests, threw |-> FALSE]
    /\ succeeded' = succeeded \cup
          NewlySucceeded(results, requests, source, targetLanguage)
    /\ calls' = calls + 1

\* The outcome of translate as the one of a call with one text.
CalledOne(text, targetLanguage, source, out) ==
    Called("translate", <<text>>, targetLanguage, source, out.mgr,
           MapSet(EmptyMap, text, out.result), out.requests)

CalledBatch(texts, targetLanguage, source, out) ==
    Called("translateBatch", texts, targetLanguage, source, out.mgr, out.results,
           out.requests)

Translate(text, targetLanguage, source, resp) ==
    /\ pc = "tm"
    /\ calls < MaxCalls
    /\ CalledOne(text, targetLanguage, source,
                 translate(Mgr, text, targetLanguage, source, resp))
    /\ UNCHANGED <<pc, mergeVars, genVars, storeVars>>

TranslateBatch(texts, targetLanguage, source, resps, bresps) ==
    /\ pc = "tm"
    /\ calls < MaxCalls
    /\ CalledBatch(texts, targetLanguage, source,
                   translateBatch(Mgr, texts, targetLanguage, source, resps, bresps))
    /\ UNCHANGED <<pc, mergeVars, genVars, storeVars>>

SetService(service) ==
    /\ pc = "tm"
    /\ translationService' = service
    /\ extendedService' = service
    /\ UNCHANGED <<pc, mergeVars, genVars, storeVars, cache, memory, apiKey, lastCall, succeeded,
                   calls>>

ClearCache ==
    /\ pc = "tm"
    /\ cache' = EmptyCache
    /\ succeeded' = {}
    /\ UNCHANGED <<pc, mergeVars, genVars, storeVars, memory, extendedService, translationService,
                   apiKey, lastCall, calls>>

\* The network is asked only by a metered backend with a credential.
RequestsSent == extendedService \in {"deepl", "google"} /\ apiKey

ResponsesNow == IF RequestsSent THEN Responses ELSE {HttpError(0)}

BatchResponsesNow(n) ==
    IF RequestsSent /\ extendedService = "deepl" THEN BatchResponses(n)
    ELSE {BatchFailed(0)}

SequentialResponsesNow(n) ==
    IF RequestsSent /\ extendedService # "deepl" THEN [1..n -> Responses]
    ELSE [1..n -> {HttpError(0)}]

TMNext ==
    \/ \E text \in SourceTexts, pair \in LangPairs, resp \in ResponsesNow :
          Translate(text, pair[2], pair[1], resp)
    \/ \E texts \in TextLists, pair \in LangPairs :
          \E resps \in SequentialResponsesNow(Len(texts)),
             bresps \in [1..1 -> BatchResponsesNow(Len(texts))] :
             TranslateBatch(texts, pair[2], pair[1], resps, bresps)
    \/ \E service \in Services : SetService(service)
    \/ ClearCache

TMSpec == TMInit /\ [][TMNext]_vars

\* ----------------------- specification of the manager with a memory file

MaxEntries == 2

MemMaxCalls == 1

\* The texts of the memory file and of the queries.
MemTexts == LongTexts \cup {"x"}

MemPairs == {<<"en", "es">>, <<"en", "fr">>}

\* The entries a memory file may hold.
MemEntries ==
    {[source |-> src, target |-> tgt, sourceLang |-> pair[1], targetLang |-> pair[2],
      service |-> "google"] :
        src \in MemTexts, tgt \in {"T", "U"}, pair \in MemPairs}

MemStores == UNION {[1..n -> MemEntries] : n \in 0..MaxEntries}

\* The constructor found a memory file and loaded its entries.
MemInit ==
    /\ pc = "tm"
    /\ NoGenerator
    /\ cache = EmptyCache
    /\ \E entries \in MemStores : Loaded(DocumentFile(entries))
    /\ extendedService = "google"
    /\ translationService = "google"
    /\ apiKey = TRUE
    /\ lastCall = NoCall
    /\ succeeded = {}
    /\ calls = 0

Lookup(text, targetLang, sourceLang) ==
    /\ pc = "tm"
    /\ calls = 0
    /\ lastLookup = NoLookup
    /\ lastLookup' = [text |-> text, sourceLang |-> sourceLang, targetLang |-> targetLang,
                      result |-> lookupInMemory(memory, text, targetLang, sourceLang,
                                                FuzzyThresholdPct)]
    /\ UNCHANGED <<pc, mergeVars, tmVars, genVars, tmFile, memoryKind, loaded, flights, lastAnswers, events>>

MemNext ==
    \/ \E text \in MemTexts, pair \in MemPairs : Lookup(text, pair[2], pair[1])
    \/ \E text \in MemTexts, pair \in MemPairs, resp \in Responses :
          /\ calls < MemMaxCalls
          /\ lastLookup = NoLookup
          /\ Translate(text, pair[2], pair[1], resp)

MemSpec == MemInit /\ [][MemNext]_vars

\* --------------------- specification of the memory file across two runs

StoreMaxCalls == 2

StoreTexts == {"x", "y"}

\* The files a run may find.
StoreFiles ==
    {AbsentFile, UnparseableFile, OtherJsonFile}
        \cup {DocumentFile(entries) :
                 entries \in {<<>>} \cup
                     {<<[source |-> text, target |-> "U", sourceLang |-> "en",
                         targetLang |-> "es", service |-> "google"]>> :
                        text \in StoreTexts}}

\* The first run constructs its manager from whatever file there is.
StoreInit ==
    /\ pc = "first run"
    /\ NoGenerator
    /\ cache = EmptyCache
    /\ \E file \in StoreFiles : Loaded(file)
    /\ extendedService = "google"
    /\ translationService = "google"
    /\ apiKey = TRUE
    /\ lastCall = NoCall
    /\ succeeded = {}
    /\ calls = 0

\* translate() gets to lookupInMemory, outside its try block, and iterates
\* this.translationMemory.entries.
ReachesLookup(text, targetLang, sourceLang) ==
    /\ ~CacheHit(cache, sourceLang, text, targetLang)
    /\ sourceLang # targetLang

\* A translate call of a run; with a translationMemory that has no entries
\* array the lookup throws a TypeError and the call rejects.
TranslateInRun(text, targetLang, sourceLang, resp) ==
    /\ pc \in {"first run", "later run"}
    /\ calls < StoreMaxCalls
    /\ IF ReachesLookup(text, targetLang, sourceLang) /\ memoryKind # "document"
       THEN /\ lastCall' = [op |-> "translate", texts |-> <<text>>,
                            source |-> sourceLang, target |-> targetLang,
                            results |-> EmptyMap, requests |-> <<>>, threw |-> TRUE]
            /\ calls' = calls + 1
            /\ UNCHANGED <<cache, memory, extendedService, translationService, apiKey,
                           succeeded>>
       ELSE CalledOne(text, targetLang, sourceLang,
                      translate(Mgr, text, targetLang, sourceLang, resp))
    /\ UNCHANGED <<pc, mergeVars, genVars, storeVars>>

\* The explicit flush, which fails silently if the file cannot be written.
SaveTranslationMemory(written) ==
    /\ pc \in {"first run", "later run"}
    /\ tmFile' = saveTranslationMemory(tmFile, memoryKind, memory, written)
    /\ UNCHANGED <<pc, mergeVars, tmVars, genVars, lastLookup, memoryKind, loaded, flights,
                   lastAnswers, events>>

\* The run ends and a later run constructs a new manager: what it holds is
\* what it loads from the file.
NextRun ==
    /\ pc = "first run"
    /\ pc' = "later run"
    /\ cache' = EmptyCache
    /\ memory' = loadTranslationMemory(tmFile).entries
    /\ memoryKind' = loadTranslationMemory(tmFile).kind
    /\ loaded' = tmFile.kind
    /\ lastCall' = NoCall
    /\ UNCHANGED <<mergeVars, genVars, lastLookup, tmFile, flights, lastAnswers, events, extendedService,
                   translationService, apiKey, succeeded, calls>>

StoreNext ==
    \/ \E text \in StoreTexts, resp \in Responses : TranslateInRun(text, "es", "en", resp)
    \/ \E written \in BOOLEAN : SaveTranslationMemory(written)
    \/ NextRun

StoreSpec == StoreInit /\ [][StoreNext]_vars

\* ------------------------------------- specification of concurrent calls

MaxFlights == 2

MaxImportLen == 2

ConcTexts == {"x", "y"}

ConcSource == "en"

ConcTarget == "es"

ConcEntries ==
    {[source |-> text, target |-> "U", sourceLang |-> ConcSource,
      targetLang |-> ConcTarget, service |-> "google"] : text \in ConcTexts}

\* The documents handed to importTranslationMemory: any entries, repeated ones
\* included.
ImportedEntries == UNION {[1..n -> ConcEntries] : n \in 0..MaxImportLen}

\* A call that has been started: the await it is suspended at ("backend": the
\* request of translate for Head(todo); "delay": the delay after a text of the
\* sequential loop; "deepl": batchTranslateDeepL) or "done"; todo are the texts
\* it has still to translate; overlapped is whether another call was
\* suspended when it started.
Flight(phase, op, todo, overlapped) ==
    [phase |-> phase, op |-> op, todo |-> todo, overlapped |-> overlapped]

Suspended == {i \in 1..Len(flights) : flights[i].phase # "done"}

\* The manager holds a duplicate-free document and is configured with a
\* network backend; no call has been started.
ConcInit ==
    /\ pc = "calls"
    /\ NoGenerator
    /\ cache = EmptyCache
    /\ \E entries \in {<<>>} \cup {<<e>> : e \in ConcEntries} : Loaded(DocumentFile(entries))
    /\ extendedService \in {"google", "deepl"}
    /\ translationService = extendedService
    /\ apiKey = TRUE
    /\ lastCall = NoCall
    /\ succeeded = {}
    /\ calls = 0

\* translate(text) runs up to the await of its backend request.
AwaitsBackend(mgr, text, match) ==
    /\ ~CacheHit(mgr.cache, ConcSource, text, ConcTarget)
    /\ ConcSource # ConcTarget
    /\ ~(match.found /\ MoreThanPct(match.similarity, AcceptThresholdPct))
    /\ ServiceOf(mgr) \in {"deepl", "google"}

\* Flight f, a slot of base, calls translate(Head(todo)): it is suspended at
\* its backend request, or returns from the cache or the memory; without a
\* text left the call returns.
Begin(base, f, op, todo, overlapped) ==
    IF todo = <<>>
    THEN /\ flights' = [base EXCEPT ![f] = Flight("done", op, <<>>, overlapped)]
         /\ UNCHANGED <<cache, memory>>
    ELSE IF AwaitsBackend(Mgr, Head(todo),
                          lookupInMemory(memory, Head(todo), ConcTarget, ConcSource,
                                         FuzzyThresholdPct))
    THEN /\ flights' = [base EXCEPT ![f] = Flight("backend", op, todo, overlapped)]
         /\ UNCHANGED <<cache, memory>>
    ELSE /\ flights' = [base EXCEPT ![f] =
                           Flight(IF op = "translate" THEN "done" ELSE "delay", op, todo,
                                  overlapped)]
         /\ SetCacheAndMemory(translate(Mgr, Head(todo), ConcTarget, ConcSource,
                                        HttpError(0)).mgr)

ConcFrame ==
    UNCHANGED <<pc, mergeVars, genVars, lastLookup, memoryKind, loaded, lastAnswers, events, extendedService,
                translationService, apiKey, lastCall, succeeded, calls>>

\* A call of translate is started while the others are suspended.
StartTranslate(text) ==
    /\ pc = "calls"
    /\ Len(flights) < MaxFlights
    /\ Begin(Append(flights, Flight("idle", "translate", <<>>, FALSE)), Len(flights) + 1,
             "translate", <<text>>, Suspended # {})
    /\ UNCHANGED tmFile
    /\ ConcFrame

\* A call of translateBatch is started: the texts that miss the cache go to
\* batchTranslateDeepL or, one after the other, to translate.
StartBatch(texts) ==
    /\ pc = "calls"
    /\ Len(flights) < MaxFlights
    /\ IF ServiceOf(Mgr) = "deepl" /\ Uncached(cache, texts, ConcTarget, ConcSource) # <<>>
       THEN /\ flights' = Append(flights,
                              Flight("deepl", "translateBatch",
                                     Uncached(cache, texts, ConcTarget, ConcSource),
                                     Suspended # {}))
            /\ UNCHANGED <<cache, memory>>
       ELSE Begin(Append(flights, Flight("idle", "translateBatch", <<>>, FALSE)),
                  Len(flights) + 1, "translateBatch",
                  Uncached(cache, texts, ConcTarget, ConcSource), Suspended # {})
    /\ UNCHANGED tmFile
    /\ ConcFrame

\* The backend answers the request of flight f: translate resumes, writes the
\* cache and the memory and returns.
BackendAnswers(f, resp) ==
    /\ pc = "calls"
    /\ f \in 1..Len(flights)
    /\ flights[f].phase = "backend"
    /\ SetCacheAndMemory(
           Complete(Mgr, Head(flights[f].todo), ConcTarget, ConcSource, ServiceOf(Mgr),
                    CallBackend(ServiceOf(Mgr), apiKey, Head(flights[f].todo), resp)).mgr)
    /\ flights' = [flights EXCEPT ![f].phase =
                      IF flights[f].op = "translate" THEN "done" ELSE "delay"]
    /\ UNCHANGED tmFile
    /\ ConcFrame

\* The delay of the sequential loop is over: the next text, if any.
DelayElapsed(f) ==
    /\ pc = "calls"
    /\ f \in 1..Len(flights)
    /\ flights[f].phase = "delay"
    /\ Begin(flights, f, flights[f].op, Tail(flights[f].todo), flights[f].overlapped)
    /\ UNCHANGED tmFile
    /\ ConcFrame

\* batchTranslateDeepL returns: its results are cached.
DeepLAnswers(f, bresps) ==
    /\ pc = "calls"
    /\ f \in 1..Len(flights)
    /\ flights[f].phase = "deepl"
    /\ cache' = CacheBatchResults(cache,
                    batchTranslateDeepL(flights[f].todo, apiKey, bresps).results,
                    DOMAIN batchTranslateDeepL(flights[f].todo, apiKey, bresps).results,
                    ConcTarget, ConcSource)
    /\ flights' = [flights EXCEPT ![f].phase = "done"]
    /\ UNCHANGED <<memory, tmFile>>
    /\ ConcFrame

\* importTranslationMemory runs to its end without an await.
ImportTranslationMemory(tm, written) ==
    /\ pc = "calls"
    /\ Len(flights) < MaxFlights
    /\ memory' = importTranslationMemory(memory, tm)
    /\ tmFile' = saveTranslationMemory(tmFile, memoryKind,
                                        importTranslationMemory(memory, tm), written)
    /\ flights' = Append(flights, Flight("done", "importTranslationMemory", <<>>,
                                         Suspended # {}))
    /\ UNCHANGED cache
    /\ ConcFrame

ConcTextLists == UNION {[1..n -> ConcTexts] : n \in 1..MaxBatchLen}

ConcNext ==
    \/ \E text \in ConcTexts : StartTranslate(text)
    \/ \E texts \in ConcTextLists : StartBatch(texts)
    \/ \E f \in 1..MaxFlights, resp \in Responses : BackendAnswers(f, resp)
    \/ \E f \in 1..MaxFlights : DelayElapsed(f)
    \/ \E f \in 1..MaxFlights, bresps \in [1..1 -> BatchResponses(MaxBatchLen)] :
          DeepLAnswers(f, bresps)
    \/ \E tm \in ImportedEntries, written \in BOOLEAN : ImportTranslationMemory(tm, written)

ConcSpec == ConcInit /\ [][ConcNext]_vars

\* ------------------------------------- specification of the batch requests

MaxTexts == 120

\* The batch requests a call of MaxTexts texts makes at most.
MaxBatches == (MaxTexts + batchSize - 1) \div batchSize

TextNo(i) == "t" \o ToString(i)

\* n texts; the text at index i comes again at index i + period.
TextsOf(n, period) == [i \in 1..n |-> TextNo(((i - 1) % period) + 1)]

\* The lists are of distinct texts, or have the first text of the first
\* batch again as the first text of the second.
Periods == {MaxTexts, batchSize}

\* The network answers the k-th batch request with a translation for each of
\* its texts, or with an error.
BatchAnswers(batches, ok) ==
    [k \in 1..Len(batches) |->
        IF ok[k] THEN BatchAnswer([i \in 1..Len(batches[k]) |-> "T" \o ToString(k)])
        ELSE BatchFailed(429)]

\* The manager uses DeepL with an API key; a text may be in the cache already.
BatchInit ==
    /\ pc = "tm"
    /\ NoGenerator
    /\ Loaded(AbsentFile)
    /\ cache \in {EmptyCache, CachePut(EmptyCache, "en", TextNo(2), "es", "T")}
    /\ extendedService = "deepl"
    /\ translationService = "deepl"
    /\ apiKey = TRUE
    /\ lastCall = NoCall
    /\ succeeded = {}
    /\ calls = 0

\* translateBatch(texts, 'es', 'en') with the answers of the network recorded.
TranslateBatchAnswered(texts, bresps) ==
    /\ pc = "tm"
    /\ calls = 0
    /\ CalledBatch(texts, "es", "en", translateBatch(Mgr, texts, "es", "en", <<>>, bresps))
    /\ lastAnswers' = bresps
    /\ UNCHANGED <<pc, mergeVars, genVars, lastLookup, tmFile, memoryKind, loaded, flights, events>>

BatchNext ==
    \E n \in 0..MaxTexts, period \in Periods, ok \in [1..MaxBatches -> BOOLEAN] :
        TranslateBatchAnswered(
            TextsOf(n, period),
            BatchAnswers(Batches(Uncached(cache, TextsOf(n, period), "es", "en")), ok))

BatchSpec == BatchInit /\ [][BatchNext]_vars

\* --------------------------- specification of the multi-instance backends

InstanceServices == {"libretranslate", "lingva"}

\* What an instance may answer: a translation, a response without one, or an
\* error.
InstanceResponses == {Answer("T"), Answer(""), HttpError(429), HttpError(500)}

InstInit ==
    /\ pc = "tm"
    /\ NoGenerator
    /\ \E service \in InstanceServices, key \in BOOLEAN : NewManager(service, key)

\* The requests of a call, one for each instance tried.
InstanceRequests(tried, service, source, text, targetLanguage) ==
    [k \in 1..Len(tried) |->
        [service |-> service, instance |-> tried[k], source |-> source,
         texts |-> <<text>>, target |-> targetLanguage]]

CallInstances(service, key, resps) ==
    IF service = "libretranslate" THEN translateWithLibreTranslate(key, resps)
    ELSE translateWithLingva(key, resps)

\* The effects of translate() on a multi-instance backend.
CalledInstances(text, targetLang, sourceLang, service, outcome, out) ==
    Called("translate", <<text>>, targetLang, sourceLang, out.mgr,
           MapSet(EmptyMap, text, out.result),
           IF out.requests = <<>> THEN <<>>
           ELSE InstanceRequests(outcome.tried, service, sourceLang, text, targetLang))

CalledVia(text, targetLang, sourceLang, outcome) ==
    CalledInstances(text, targetLang, sourceLang, ServiceOf(Mgr), outcome,
        Dispatch(Mgr, text, targetLang, sourceLang, ServiceOf(Mgr),
                 lookupInMemory(memory, text, targetLang, sourceLang, FuzzyThresholdPct),
                 outcome))

\* translate(text, targetLang, sourceLang); resps[i] is the answer of the i-th
\* instance, should it be requested.
TranslateViaInstances(text, targetLang, sourceLang, resps) ==
    /\ pc = "tm"
    /\ calls < MaxCalls
    /\ CalledVia(text, targetLang, sourceLang, CallInstances(ServiceOf(Mgr), apiKey, resps))
    /\ lastAnswers' = resps
    /\ UNCHANGED <<pc, mergeVars, genVars, lastLookup, tmFile, memoryKind, loaded, flights, events>>

InstNext ==
    \E text \in {"x", "y"}, resps \in [1..Len(Instances(extendedService, apiKey)) ->
                                         InstanceResponses] :
        TranslateViaInstances(text, "es", "en", resps)

InstSpec == InstInit /\ [][InstNext]_vars

\* ------------------------------- specification of the failing requests

\* The HTTP statuses of failed requests; 0 stands for no response.
ErrStatuses == {0, 400, 401, 403, 429, 456, 500, 502, 503}

\* What the network may answer to a single-text request.
ErrResponses == {HttpError(code) : code \in ErrStatuses} \cup {Answer("T")}

\* What the network may answer to a batch request of n texts.
ErrBatchResponses(n) ==
    {BatchFailedWith(code, body) : code \in ErrStatuses \ {0}, body \in {"", "Bad request"}}
        \cup {BatchFailed(0), BatchAnswer([i \in 1..n |-> "T"])}

\* A manager of a metered network backend with a credential.
ErrInit ==
    /\ pc = "tm"
    /\ NoGenerator
    /\ \E service \in {"deepl", "google"} : NewManager(service, TRUE)

\* translate(text, 'es', 'en') with the answer of the network recorded.
TranslateAnswered(text, resp) ==
    /\ pc = "tm"
    /\ calls < MaxCalls
    /\ CalledOne(text, "es", "en", translate(Mgr, text, "es", "en", resp))
    /\ lastAnswers' = <<resp>>
    /\ UNCHANGED <<pc, mergeVars, genVars, lastLookup, tmFile, memoryKind, loaded, flights, events>>

ErrNext ==
    \/ \E text \in {"x", "y"}, resp \in ErrResponses : TranslateAnswered(text, resp)
    \/ /\ extendedService = "deepl"
       /\ \E texts \in UNION {[1..n -> {"x", "y"}] : n \in 1..MaxBatchLen} :
             \E bresp \in ErrBatchResponses(Len(texts)) :
                TranslateBatchAnswered(texts, <<bresp>>)

ErrSpec == ErrInit /\ [][ErrNext]_vars

\* ------------------------------- specification of one call, await by await

\* events has what the call did at its awaits, in order: "request" (a request
\* is sent to the network backend), "response" (the request is answered or
\* fails), "delay" (this.delay(rateLimitDelay) starts), "elapsed" (it is over).
StepServices == {"deepl", "google", "uppercase"}

\* A manager with a network backend and its credential, or with a transform.
StepInit ==
    /\ pc = "steps"
    /\ NoGenerator
    /\ \E service \in StepServices : NewManager(service, service # "uppercase")

\* The record of a call that starts: the cached texts have their results.
NewCall(op, texts) ==
    [op |-> op, texts |-> texts, source |-> ConcSource, target |-> ConcTarget,
     results |-> IF op = "translate" THEN EmptyMap
                 ELSE CachedResults(cache, texts, ConcTarget, ConcSource),
     requests |-> <<>>, threw |-> FALSE]

Running(phase, op, todo) == <<Flight(phase, op, todo, FALSE)>>

\* One more backend invocation of the call.
WithRequest(call, service, texts) ==
    [call EXCEPT !.requests = Append(@, Request(service, ConcSource, texts, ConcTarget))]

\* The call has the texts todo left for translate(): translate(Head(todo))
\* runs up to the await of its request, or returns without one, and then
\* translateBatch awaits the delay; with no text left the call returns.
Proceed(op, todo, sofar, call) ==
    IF todo = <<>>
    THEN /\ flights' = Running("done", op, <<>>)
         /\ events' = sofar
         /\ lastCall' = call
         /\ UNCHANGED <<cache, memory>>
    ELSE IF AwaitsBackend(Mgr, Head(todo),
                          lookupInMemory(memory, Head(todo), ConcTarget, ConcSource,
                                         FuzzyThresholdPct))
    THEN /\ flights' = Running("backend", op, todo)
         /\ events' = Append(sofar, "request")
         /\ lastCall' = WithRequest(call, ServiceOf(Mgr), <<Head(todo)>>)
         /\ UNCHANGED <<cache, memory>>
    ELSE /\ flights' = Running(IF op = "translate" THEN "done" ELSE "delay", op, todo)
         /\ events' = IF op = "translate" THEN sofar ELSE Append(sofar, "delay")
         /\ lastCall' =
               [call EXCEPT !.results =
                   MapSet(@, Head(todo),
                          translate(Mgr, Head(todo), ConcTarget, ConcSource,
                                    HttpError(0)).result)]
         /\ SetCacheAndMemory(translate(Mgr, Head(todo), ConcTarget, ConcSource,
                                        HttpError(0)).mgr)

\* The texts after the first batch.
AfterBatch(todo) == SubSeq(todo, Len(Head(Batches(todo))) + 1, Len(todo))

SendBatch_FanOut(todo, sofar, call) ==
    IF todo = <<>>
    THEN /\ flights' = Running("done", "translateBatch", <<>>)
         /\ events' = sofar
         /\ lastCall' = call
         /\ cache' = CacheBatchResults(cache, call.results,
                                       {t \in DOMAIN call.results : ~call.results[t].cached},
                                       ConcTarget, ConcSource)
         /\ UNCHANGED memory
    ELSE /\ flights' = Running("deepl", "translateBatch", todo)
         /\ events' = sofar \o [k \in 1..Len(Batches(todo)) |-> "request"]
         /\ lastCall' = WithRequest(call, "deepl", Head(Batches(todo)))
         /\ UNCHANGED <<cache, memory>>

\* The loop of batchTranslateDeepL has the texts todo left: the request of
\* the next batch is sent; with no text left batchTranslateDeepL returns and
\* translateBatch caches its results.
SendBatch(todo, sofar, call) ==
    IF todo = <<>>
    THEN /\ flights' = Running("done", "translateBatch", <<>>)
         /\ events' = sofar
         /\ lastCall' = call
         /\ cache' = CacheBatchResults(cache, call.results,
                                       {t \in DOMAIN call.results : ~call.results[t].cached},
                                       ConcTarget, ConcSource)
         /\ UNCHANGED memory
    ELSE /\ flights' = Running("deepl", "translateBatch", todo)
         /\ events' = Append(sofar, "request")
         /\ lastCall' = WithRequest(call, "deepl", Head(Batches(todo)))
         /\ UNCHANGED <<cache, memory>>

StepFrame ==
    UNCHANGED <<pc, mergeVars, genVars, lastLookup, tmFile, memoryKind, loaded, lastAnswers,
                extendedService, translationService, apiKey, succeeded>>

\* translate(text) is called.
StepTranslate(text) ==
    /\ pc = "steps"
    /\ flights = <<>>
    /\ calls' = calls + 1
    /\ Proceed("translate", <<text>>, <<>>, NewCall("translate", <<text>>))
    /\ StepFrame

\* translateBatch(texts) is called.
StepTranslateBatch(texts) ==
    /\ pc = "steps"
    /\ flights = <<>>
    /\ calls' = calls + 1
    /\ IF ServiceOf(Mgr) = "deepl" /\ Uncached(cache, texts, ConcTarget, ConcSource) # <<>>
       THEN SendBatch(Uncached(cache, texts, ConcTarget, ConcSource), <<>>,
                      NewCall("translateBatch", texts))
       ELSE Proceed("translateBatch", Uncached(cache, texts, ConcTarget, ConcSource), <<>>,
                    NewCall("translateBatch", texts))
    /\ StepFrame

\* The request of translate() is answered: translate writes the cache and the
\* memory and returns; translateBatch sets the result and awaits the delay.
TextAnswered(resp) ==
    /\ pc = "steps"
    /\ flights # <<>>
    /\ flights[1].phase = "backend"
    /\ SetCacheAndMemory(
           Complete(Mgr, Head(flights[1].todo), ConcTarget, ConcSource, ServiceOf(Mgr),
                    CallBackend(ServiceOf(Mgr), apiKey, Head(flights[1].todo), resp)).mgr)
    /\ lastCall' =
          [lastCall EXCEPT !.results =
              MapSet(@, Head(flights[1].todo),
                     Complete(Mgr, Head(flights[1].todo), ConcTarget, ConcSource,
                              ServiceOf(Mgr),
                              CallBackend(ServiceOf(Mgr), apiKey, Head(flights[1].todo),
                                          resp)).result)]
    /\ flights' = Running(IF flights[1].op = "translate" THEN "done" ELSE "delay",
                          flights[1].op, flights[1].todo)
    /\ events' = IF flights[1].op = "translate" THEN Append(events, "response")
                 ELSE events \o <<"response", "delay">>
    /\ UNCHANGED calls
    /\ StepFrame

\* The delay of the sequential loop is over: the next text.
TextDelayElapsed ==
    /\ pc = "steps"
    /\ flights # <<>>
    /\ flights[1].phase = "delay"
    /\ Proceed("translateBatch", Tail(flights[1].todo), Append(events, "elapsed"), lastCall)
    /\ UNCHANGED calls
    /\ StepFrame

\* The batch request is answered.  A response: its translations are set and
\* the delay is awaited.  A failure: the catch block fails the texts of the
\* batch and the loop goes on with the next batch.
BatchAnswered(bresp) ==
    /\ pc = "steps"
    /\ flights # <<>>
    /\ flights[1].phase = "deepl"
    /\ IF bresp.ok
       THEN /\ flights' = Running("deepl delay", "translateBatch", flights[1].todo)
            /\ events' = events \o <<"response", "delay">>
            /\ lastCall' =
                  [lastCall EXCEPT !.results =
                      IF bresp.hasTranslations
                      THEN SetTranslations(@, Head(Batches(flights[1].todo)),
                                           bresp.translations, 1)
                      ELSE @]
            /\ UNCHANGED <<cache, memory>>
       ELSE SendBatch(AfterBatch(flights[1].todo), Append(events, "response"),
                      [lastCall EXCEPT !.results =
                          SetFailures(@, Head(Batches(flights[1].todo)),
                                      handleApiError(bresp, "deepl"))])
    /\ UNCHANGED calls
    /\ StepFrame

\* The delay after a batch is over: the next batch.
BatchDelayElapsed ==
    /\ pc = "steps"
    /\ flights # <<>>
    /\ flights[1].phase = "deepl delay"
    /\ SendBatch(AfterBatch(flights[1].todo), Append(events, "elapsed"), lastCall)
    /\ UNCHANGED calls
    /\ StepFrame

\* What the network may answer to the batch request that is outstanding.
StepBatchResponses ==
    IF flights # <<>> /\ flights[1].todo # <<>>
    THEN {BatchAnswer([i \in 1..Len(Head(Batches(flights[1].todo))) |-> "T"]),
          BatchFailed(429)}
    ELSE {BatchFailed(429)}

\* DeepL is handed up to MaxTexts distinct texts, the other backends the
\* short lists.
StepTextLists ==
    IF extendedService = "deepl" THEN {TextsOf(n, MaxTexts) : n \in 0..MaxTexts}
    ELSE ConcTextLists

StepNext ==
    \/ \E text \in ConcTexts : StepTranslate(text)
    \/ \E texts \in StepTextLists : StepTranslateBatch(texts)
    \/ \E resp \in Responses : TextAnswered(resp)
    \/ TextDelayElapsed
    \/ \E bresp \in StepBatchResponses : BatchAnswered(bresp)
    \/ BatchDelayElapsed

StepSpec == StepInit /\ [][StepNext]_vars

\* ------------------------------------ specification of the text transforms

TransformServices == {"uppercase", "leet", "reverse", "mirror", "morse", "nato"}

\* A manager whose backend is a text transform.
TransformInit ==
    /\ pc = "tm"
    /\ NoGenerator
    /\ \E service \in TransformServices : NewManager(service, FALSE)

\* translate(text, 'es', 'en') of a new manager: the transform is applied.
TransformText(text) ==
    /\ pc = "tm"
    /\ calls = 0
    /\ CalledOne(text, "es", "en", translate(Mgr, text, "es", "en", HttpError(0)))
    /\ UNCHANGED <<pc, mergeVars, genVars, storeVars>>

TransformNext == \E text \in TransformTexts : TransformText(text)

TransformSpec == TransformInit /\ [][TransformNext]_vars

\* ------------------------------------------------------------ reconciliation

\* for (const [key, value] of Object.entries(flatSource))
\*     if (!flatTarget[key] || flatTarget[key] === value) keysToTranslate.push(...)
RECURSIVE KeysToTranslate(_, _)
KeysToTranslate(flatSource, flatTarget) ==
    IF flatSource = <<>> THEN <<>>
    ELSE LET e == Head(flatSource)
             rest == KeysToTranslate(Tail(flatSource), flatTarget)
         IN IF ~FlatTruthy(flatTarget, e.k) \/ FlatGet(flatTarget, e.k) = e.v
            THEN <<e>> \o rest
            ELSE rest

\* keysToTranslate.map(k => k.value)
ValuesOf(entries) == [i \in 1..Len(entries) |-> entries[i].v]

\* translation?.success && translation.text
Translated(translations, value) ==
    /\ value \in DOMAIN translations
    /\ translations[value].success
    /\ Truthy(translations[value].text)

\* Mutant of ApplyTranslations: a successful result is written even when its
\* text is empty.
RECURSIVE ApplyTranslations_NoEmptyCheck(_, _, _)
ApplyTranslations_NoEmptyCheck(result, todo, translations) ==
    IF todo = <<>> THEN result
    ELSE LET key == Head(todo).k
             value == Head(todo).v
             ok == value \in DOMAIN translations /\ translations[value].success
         IN ApplyTranslations_NoEmptyCheck(
                PutEntry(result, Leaf(key, IF ok THEN translations[value].text
                                           ELSE value)),
                Tail(todo), translations)

\* for (const { key, value } of keysToTranslate) result[key] = translated or value
RECURSIVE ApplyTranslations(_, _, _)
ApplyTranslations(result, todo, translations) ==
    IF todo = <<>> THEN result
    ELSE LET key == Head(todo).k
             value == Head(todo).v
         IN ApplyTranslations(
                PutEntry(result, Leaf(key, IF Translated(translations, value)
                                           THEN translations[value].text
                                           ELSE value)),
                Tail(todo), translations)

\* const data = this.config.flatKeys ? result : this.unflattenObject(result)
Renested(cfg, result) == IF cfg.flatKeys THEN result ELSE unflattenObject(result)

\* return this.config.sortKeys ? this.sortObjectKeys(data) : data
Sorted(cfg, data) == IF cfg.sortKeys THEN sortObjectKeys(data) ELSE data

\* translateMissingKeys from the test of keysToTranslate on; batch is what
\* translateBatch answers when it is called.
ApplyBatch(mgr, cfg, service, existingTarget, flatTarget, keysToTranslate, batch) ==
    IF keysToTranslate = <<>>
    THEN [mgr |-> mgr, wrote |-> TRUE, data |-> existingTarget, submitted |-> <<>>,
          results |-> EmptyMap, requests |-> <<>>]
    ELSE IF service # "none"
    THEN [mgr |-> batch.mgr, wrote |-> TRUE,
          data |-> Sorted(cfg, Renested(cfg,
                      ApplyTranslations(flatTarget, keysToTranslate, batch.results))),
          submitted |-> keysToTranslate,
          results |-> batch.results, requests |-> batch.requests]
    ELSE [mgr |-> mgr, wrote |-> TRUE,
          data |-> Sorted(cfg, Renested(cfg, AssignAll(flatTarget, keysToTranslate))),
          submitted |-> <<>>,
          results |-> EmptyMap, requests |-> <<>>]

\* translateMissingKeys(sourceData, existingTarget, targetLang) of a generator
\* whose config is cfg and whose config.translationService is service.
translateMissingKeys(mgr, cfg, service, source, existingTarget, targetLang, sourceLang, resps, bresps) ==
    LET flatTarget == flattenObject(existingTarget, <<>>)
        keysToTranslate == KeysToTranslate(flattenObject(source, <<>>), flatTarget)
    IN ApplyBatch(mgr, cfg, service, existingTarget, flatTarget, keysToTranslate,
                  translateBatch(mgr, ValuesOf(keysToTranslate), targetLang, sourceLang,
                                 resps, bresps))

\* ------------------------------------------------- Multilingual.translateFile

\* flatten of translateFile: the leaves of the source file that are strings
\* (the trees of the model have no other leaves).
flatten(obj, prefix) == flattenObject(obj, prefix)

\* The body of unflatten's loop for one key: walk the parts, then assign.  A
\* part that holds a non-empty string is walked into, and the assignment of a
\* property on that string throws (the module is strict code).
RECURSIVE unflattenSet(_, _, _)
unflattenSet(obj, parts, value) ==
    IF Len(parts) = 1
    THEN [threw |-> FALSE, obj |-> PutEntry(obj, Leaf(parts[1], value))]
    ELSE LET key == parts[1]
             has == HasKey(obj, key)
             e == obj[IndexOf(obj, key)]
         IN IF has /\ e.leaf /\ Truthy(e.v)
            THEN [threw |-> TRUE, obj |-> obj]
            ELSE LET current == IF has /\ ~e.leaf THEN e.kids ELSE <<>>
                     inner == unflattenSet(current, Tail(parts), value)
                 IN [threw |-> inner.threw,
                     obj |-> PutEntry(obj, Node(key, inner.obj))]

RECURSIVE unflattenLoop(_, _)
unflattenLoop(acc, flat) ==
    IF flat = <<>> \/ acc.threw THEN acc
    ELSE unflattenLoop(unflattenSet(acc.obj, SplitKey(Head(flat).k), Head(flat).v),
                       Tail(flat))

unflatten(flat) == unflattenLoop([threw |-> FALSE, obj |-> <<>>], flat)

\* translatedFlat[key] = result?.success && result.text ? result.text : original
TranslatedFlat(flatSource, translations) ==
    [j \in 1..Len(flatSource) |->
        Leaf(flatSource[j].k,
             IF Translated(translations, flatSource[j].v)
             THEN translations[flatSource[j].v].text
             ELSE flatSource[j].v)]

\* The end of the try block: the file is written unless building the tree
\* threw, which the catch of that language turns into an error.
WriteTranslated(flatSource, batch, translatedData) ==
    [mgr |-> batch.mgr, wrote |-> ~translatedData.threw,
     data |-> translatedData.obj, submitted |-> flatSource,
     results |-> batch.results, requests |-> batch.requests]

\* The try block from the answer of translateBatch on.
BuildTranslated(flatSource, batch) ==
    WriteTranslated(flatSource, batch,
                    unflatten(TranslatedFlat(flatSource, batch.results)))

\* One target language of translateFile.
translateFile(mgr, source, targetLang, sourceLang, resps, bresps) ==
    LET flatSource == flatten(source, <<>>)
    IN BuildTranslated(flatSource,
                       translateBatch(mgr, ValuesOf(flatSource), targetLang, sourceLang,
                                      resps, bresps))

\* ------------------------------------ specification of the reconciliation

MaxRuns == 2

\* Leaves a hand edit may give a target file that has fewer.
MaxTargetLeaves == 1

\* config.sourceLanguage and the one language of config.targetLanguages.
sourceLanguage == "en"

targetLanguage == "es"

\* <<config.translationService, whether config.apiKey is set>>
GenServices == {<<"deepl", TRUE>>, <<"google", TRUE>>, <<"uppercase", FALSE>>,
                <<"none", FALSE>>}

\* The dotted keys of the source data and of the target file: a leaf/subtree
\* conflict (a against a.b) and a free top-level key.
GenKeyPaths == {<<"a">>, <<"b">>, <<"a", "b">>}

GenInit ==
    /\ pc = "gen"
    /\ config \in {c \in Configs : c.preserveExisting}
    /\ existing = <<>>
    /\ newData = <<>>
    /\ mergeResult = NoMerge
    /\ \E sk \in GenServices : NewManager(sk[1], sk[2])
    /\ NoReconciliation

\* The merged source data gains the string of one more scanned key (the
\* source is scanned before the first run).
SourceString(key, value) ==
    /\ pc = "gen"
    /\ lastRun.op = "none"
    /\ config.flatKeys => Len(key) = 1
    /\ LET t == stringsToObject(sourceData, key, value, config)
       IN /\ NumLeaves(t) <= MaxLeaves
          /\ sourceData' = t
    /\ UNCHANGED <<pc, mergeVars, tmVars, storeVars, targetFile, lastRun, core>>

\* The target-language file is edited by hand: any leaf before the first run;
\* afterwards a translator replaces the text of a key the latest run handed to
\* translation by a text of their own.
EditTarget(key, value) ==
    /\ pc = "gen"
    /\ lastRun.op = "none" \/ (key \in FlatKeys(lastRun.submitted) /\ value = "y")
    /\ config.flatKeys => Len(key) = 1
    /\ LET t == IF config.flatKeys THEN PutEntry(targetFile, Leaf(key, value))
                ELSE setNestedValue(targetFile, SplitKey(key), value)
       IN /\ NumLeaves(t) <= Max2(NumLeaves(targetFile), MaxTargetLeaves)
          /\ t # targetFile
          /\ targetFile' = t
    /\ UNCHANGED <<pc, mergeVars, tmVars, storeVars, sourceData, lastRun, core>>

\* The effects of a run: the manager afterwards, the file written and the
\* record of the run.
Ran(op, out) ==
    /\ SetManager(out.mgr)
    /\ targetFile' = IF out.wrote THEN out.data ELSE targetFile
    /\ lastRun' = [op |-> op, source |-> sourceData,
                   before |-> targetFile, target |-> targetLanguage,
                   submitted |-> out.submitted, results |-> out.results,
                   requests |-> out.requests, wrote |-> out.wrote,
                   written |-> out.data]

\* One target language of generate(): load the file, translateMissingKeys,
\* write the file.
Reconcile(resps, bresps) ==
    /\ pc = "gen"
    /\ calls < MaxRuns
    /\ Ran("generate",
           translateMissingKeys(Mgr, config, translationService, sourceData, targetFile,
                                targetLanguage, sourceLanguage, resps, bresps))
    /\ calls' = calls + 1
    /\ UNCHANGED <<pc, mergeVars, storeVars, lastCall, succeeded, sourceData, core>>

\* translateFile of the source data into the directory of the target file.
TranslateFile(resps, bresps) ==
    /\ pc = "gen"
    /\ calls < MaxRuns
    /\ ~config.flatKeys
    /\ Ran("translateFile",
           translateFile(Mgr, sourceData, targetLanguage, sourceLanguage, resps, bresps))
    /\ calls' = calls + 1
    /\ UNCHANGED <<pc, mergeVars, storeVars, lastCall, succeeded, sourceData, core>>

\* The number of texts the next run hands to translateBatch.
TextsToReconcile ==
    Len(KeysToTranslate(flattenObject(sourceData, <<>>), flattenObject(targetFile, <<>>)))

GenNext ==
    \/ \E key \in GenKeyPaths, value \in SourceTexts : SourceString(key, value)
    \/ \E key \in GenKeyPaths, value \in Values : EditTarget(key, value)
    \/ \E resps \in SequentialResponsesNow(TextsToReconcile),
          bresps \in [1..1 -> BatchResponsesNow(TextsToReconcile)] :
          Reconcile(resps, bresps)
    \/ \E resps \in SequentialResponsesNow(NumLeaves(sourceData)),
          bresps \in [1..1 -> BatchResponsesNow(NumLeaves(sourceData))] :
          TranslateFile(resps, bresps)

GenSpec == GenInit /\ [][GenNext]_vars

\* ------------------------------------------- specification of Multilingual

\* {...base, ...partial}: the fields of partial replace those of base.
Spread(base, partial) ==
    [f \in DOMAIN base |-> IF f \in DOMAIN partial THEN partial[f] ELSE base[f]]

\* ConfigManager.mergeConfig: the partial configuration over the current one
\* (an array of the partial one, empty or not, is truthy and wins).
mergeConfig(current, partial) == Spread(current, partial)

\* a || b of two strings.
OrElse(a, b) == IF Truthy(a) THEN a ELSE b

\* The API key load() takes from the environment when the configuration has none.
EnvApiKey(cfg, env) ==
    CASE Truthy(cfg.apiKey) -> cfg.apiKey
      [] cfg.translationService = "deepl" ->
             OrElse(env.DEEPL_API_KEY, env.MULTILINGUAL_API_KEY)
      [] cfg.translationService = "google" ->
             OrElse(env.GOOGLE_TRANSLATE_API_KEY, env.MULTILINGUAL_API_KEY)
      [] OTHER -> cfg.apiKey

Absent == [exists |-> FALSE, content |-> <<>>]

Present(partial) == [exists |-> TRUE, content |-> partial]

\* ConfigManager.load: the first configuration file found, then the
\* "multilingual" key of package.json, then the API key of the environment.
load(current, file, package, env) ==
    LET fromFile == IF file.exists THEN mergeConfig(current, file.content) ELSE current
        fromPackage == IF package.exists THEN mergeConfig(fromFile, package.content)
                       ELSE fromFile
    IN [fromPackage EXCEPT !.apiKey = EnvApiKey(fromPackage, env)]

Includes(seq, x) == \E i \in 1..Len(seq) : seq[i] = x

\* ConfigManager.validate: the errors of a configuration.
validate(cfg) ==
    LET errors ==
            (IF ~Truthy(cfg.sourceLanguage) THEN {"Source language is required"} ELSE {})
            \cup (IF Len(cfg.targetLanguages) = 0
                  THEN {"At least one target language is required"} ELSE {})
            \cup (IF Includes(cfg.targetLanguages, cfg.sourceLanguage)
                  THEN {"Target languages should not include source language"} ELSE {})
            \cup (IF ~Truthy(cfg.outputDir) THEN {"Output directory is required"} ELSE {})
            \cup (IF cfg.translationService # "none" /\ ~Truthy(cfg.apiKey)
                  THEN {"API key is required"} ELSE {})
    IN [valid |-> errors = {}, errors |-> errors]

\* The config argument of the constructor: none, the one of the README
\* (several languages, DeepL with a key), another source language, Google.
CoreOptions ==
    { <<>>,
      [sourceLanguage |-> "en", targetLanguages |-> <<"es", "fr">>,
       translationService |-> "deepl", apiKey |-> "k"],
      [sourceLanguage |-> "fr", targetLanguages |-> <<"es">>],
      [targetLanguages |-> <<"es">>, translationService |-> "google", apiKey |-> "k"] }

\* The configuration file of the project.
CoreFiles ==
    { Absent, Present(<<>>), Present([targetLanguages |-> <<"de">>]),
      Present([translationService |-> "deepl"]),
      Present([sourceLanguage |-> "es", targetLanguages |-> <<"es">>]) }

\* The "multilingual" key of package.json.
CorePackages == { Absent, Present([targetLanguages |-> <<"ja">>]) }

\* The API keys of the environment.
CoreEnvs ==
    { [DEEPL_API_KEY |-> deepl, GOOGLE_TRANSLATE_API_KEY |-> "", MULTILINGUAL_API_KEY |-> any] :
          deepl \in {"", "kd"}, any \in {"", "km"} }

\* new Multilingual({config: options}): the ConfigManager is built from the
\* project root alone, the components from the defaults under the options.
Constructed(options, file, package, env) ==
    LET cfg == Spread(DEFAULT_CONFIG, options)
    IN [phase |-> "constructed", options |-> options, file |-> file,
        package |-> package, env |-> env, managerConfig |-> DEFAULT_CONFIG,
        config |-> cfg, components |-> cfg, result |-> NoRunResult]

CoreInit ==
    /\ pc = "core"
    /\ config = [preserveExisting |-> TRUE, flatKeys |-> FALSE, sortKeys |-> TRUE]
    /\ existing = <<>>
    /\ newData = <<>>
    /\ mergeResult = NoMerge
    /\ NewManager("none", FALSE)
    /\ sourceData = <<>>
    /\ targetFile = <<>>
    /\ lastRun = NoRun
    /\ lastLookup = NoLookup
    /\ \E options \in CoreOptions, file \in CoreFiles, package \in CorePackages,
          env \in CoreEnvs : core = Constructed(options, file, package, env)

CoreFrame == UNCHANGED <<pc, mergeVars, tmVars, storeVars, sourceData, targetFile, lastRun>>

\* init(): this.config = await this.configManager.load(); updateComponents().
Initialize ==
    /\ pc = "core"
    /\ core.phase = "constructed"
    /\ LET loadedConfig == load(core.managerConfig, core.file, core.package, core.env)
       IN core' = [core EXCEPT !.phase = "initialized", !.managerConfig = loadedConfig,
                               !.config = loadedConfig, !.components = loadedConfig]
    /\ CoreFrame

\* run(): the configuration of the ConfigManager is validated; a valid one
\* lets the scanner scan and, when strings were found, the generator generate
\* with the configuration the components were built from.
Run(found) ==
    /\ pc = "core"
    /\ core.phase \in {"constructed", "initialized"}
    /\ LET validation == validate(core.managerConfig)
       IN core' = [core EXCEPT
                      !.phase = IF core.phase = "initialized" THEN "ran" ELSE "ran uninitialized",
                      !.result = [called |-> TRUE, valid |-> validation.valid,
                                  errors |-> IF ~validation.valid THEN validation.errors
                                             ELSE IF ~found
                                                  THEN {"No translatable strings found"}
                                                  ELSE {},
                                  success |-> validation.valid /\ found,
                                  generated |-> core.components]]
    /\ CoreFrame

CoreNext ==
    \/ Initialize
    \/ \E found \in BOOLEAN : Run(found)

CoreSpec == CoreInit /\ [][CoreNext]_vars

\* --------------------------------------------------- claims about the merge

flatA == flattenObject(existing, <<>>)

flatB == flattenObject(newData, <<>>)

flatOut == flattenObject(mergeResult.data, <<>>)

OutHas(key, value) == HasKey(flatOut, key) /\ FlatGet(flatOut, key) = value

C2_NeverClobbered ==
    (pc = "merged" /\ config.preserveExisting)
        => \A key \in FlatKeys(flatA) \cap FlatKeys(flatB) :
              OutHas(key, FlatGet(flatA, key))

C4_RemovedCount ==
    pc = "merged"
        => mergeResult.removedKeys = Cardinality(FlatKeys(flatA) \ FlatKeys(flatB))

\* C5: merging a tree with itself gives newKeys=0, removedKeys=0 and
\* unchangedKeys equal to the number of flattened keys.
C5_Idempotence ==
    (pc = "merged" /\ existing = newData)
        => /\ mergeResult.newKeys = 0
           /\ mergeResult.removedKeys = 0
           /\ mergeResult.unchangedKeys = Cardinality(FlatKeys(flatA))

\* ------------------------------------------ claims about the reconciliation

flatSource == flattenObject(lastRun.source, <<>>)

flatBefore == flattenObject(lastRun.before, <<>>)

flatWritten == flattenObject(lastRun.written, <<>>)

Reconciled == lastRun.op = "generate"

\* C6: with a translation service configured, reconciliation hands a source
\* key to translation if and only if the key is absent from the existing
\* target tree or its existing target value is identical to the source value.
C6_SubmittedIff ==
    (Reconciled /\ translationService # "none") =>
        \A key \in FlatKeys(flatSource) :
            key \in FlatKeys(lastRun.submitted)
                <=> \/ key \notin FlatKeys(flatBefore)
                    \/ FlatGet(flatBefore, key) = FlatGet(flatSource, key)

\* C7: in every run, a key whose value in the target file on disk differs
\* from the source value is not handed to translation and is written back
\* with exactly the value it had.
C7_EditsKept ==
    Reconciled =>
        \A key \in FlatKeys(flatSource) \cap FlatKeys(flatBefore) :
            FlatGet(flatBefore, key) # FlatGet(flatSource, key) =>
                /\ key \notin FlatKeys(lastRun.submitted)
                /\ key \in FlatKeys(flatWritten)
                /\ FlatGet(flatWritten, key) = FlatGet(flatBefore, key)

\* The translation of a submitted text failed: no result for it, a result
\* that is not a success, or an empty text.
Failed(value) == ~Translated(lastRun.results, value)

Unchanged(t) ==
    /\ t \in DOMAIN lastCall.results
    /\ lastCall.results[t].success
    /\ lastCall.results[t].text = t

\* C9: a translate or translateBatch call whose source language equals its
\* target language answers every text with a success carrying the text
\* unchanged, and invokes no backend.
C9_SameLanguage ==
    (lastCall.op # "none" /\ lastCall.source = lastCall.target) =>
        /\ lastCall.requests = <<>>
        /\ \A i \in 1..Len(lastCall.texts) : Unchanged(lastCall.texts[i])

\* The texts of the triples whose translation has succeeded with a text of
\* the set given, among those a request of the call made by this step names.
InvokedAgain(texts) ==
    {<<i, j>> \in (1..MaxBatchLen) \X (1..MaxBatchLen) :
        /\ i <= Len(lastCall'.requests)
        /\ j <= Len(lastCall'.requests[i].texts)
        /\ \E t \in texts :
              <<lastCall'.source, lastCall'.requests[i].texts[j], lastCall'.target, t>>
                  \in succeeded}

MatchBefore ==
    lookupInMemory(memory, lastCall'.texts[1], lastCall'.target, lastCall'.source,
                   FuzzyThresholdPct)

\* A translate call that reached the memory lookup and found a match.
TranslateWithMatch ==
    /\ calls' = calls + 1
    /\ lastCall'.op = "translate"
    /\ ~CacheHit(cache, lastCall'.source, lastCall'.texts[1], lastCall'.target)
    /\ lastCall'.source # lastCall'.target
    /\ MatchBefore.found

\* C11: translate accepts a memory match without calling the backend exactly
\* when the similarity of the match is at least 0.95; a match below 0.95
\* does not keep the backend from being called.
C11_AcceptAtLeast95 ==
    [][TranslateWithMatch =>
          (lastCall'.requests = <<>>
              <=> MatchBefore.similarity.num * 100 >= 95 * MatchBefore.similarity.den)]_vars


\* A lookup has been made in the store the manager loaded.
LookedUp == lastLookup # NoLookup

\* Entry i is of the language pair of the latest lookup.
SamePair(i) ==
    /\ memory[i].sourceLang = lastLookup.sourceLang
    /\ memory[i].targetLang = lastLookup.targetLang

\* Entry i and the text of the latest lookup are the same once trimmed and
\* lower-cased.
SameNormalized(i) == Normalized(memory[i].source) = Normalized(lastLookup.text)

SimilarityTo(i) ==
    calculateSimilarity(Normalized(lastLookup.text), Normalized(memory[i].source))

\* Entry i is of the pair and at least 0.85 similar to the text.
Meets(i) ==
    /\ SamePair(i)
    /\ SimilarityTo(i).num * 100 >= 85 * SimilarityTo(i).den

One == [num |-> 1, den |-> 1]

\* C12 as stated: the lookup returns similarity 1.0 whenever the store holds
\* an entry of the same language pair whose normalized source is identical
\* to the normalized text.
C12_ExactIsOne ==
    LookedUp /\ (\E i \in 1..Len(memory) : SamePair(i) /\ SameNormalized(i))
        => lastLookup.result.found /\ lastLookup.result.similarity = One

\* C12 amended: the lookup returns similarity 1.0, and the translation of
\* that entry, whenever the store holds an entry of the same language pair
\* whose normalized source is identical to the normalized text and no
\* earlier entry of the pair is at least 0.85 similar to the text.
C12_ExactIsOneUnlessShadowed ==
    LookedUp =>
        \A i \in 1..Len(memory) :
            SamePair(i) /\ SameNormalized(i) /\ (\A j \in 1..(i - 1) : ~Meets(j))
                => /\ lastLookup.result.found
                   /\ lastLookup.result.similarity = One
                   /\ lastLookup.result.translation = memory[i].target

\* The second entry differs from the text by case and blanks only, the first
\* is of the same pair and unlike the text: similarity 1.0 is returned.
C12_Witness ==
    /\ LookedUp
    /\ Len(memory) = 2
    /\ SamePair(1) /\ ~Meets(1)
    /\ SamePair(2) /\ SameNormalized(2) /\ memory[2].source # lastLookup.text
    /\ memory[1].target # memory[2].target
    /\ lastLookup.result.similarity = One
    /\ lastLookup.result.translation = memory[2].target

\* C13: the lookup returns the first entry, in insertion order, of the
\* language pair whose similarity to the text is at least 0.85, with that
\* similarity, whether or not a later entry is more similar; it returns no
\* match if and only if no entry of the pair reaches 0.85.
C13_FirstNotBest ==
    LookedUp =>
        /\ \A i \in 1..Len(memory) :
              Meets(i) /\ (\A j \in 1..(i - 1) : ~Meets(j))
                  => lastLookup.result = Match(memory[i], SimilarityTo(i))
        /\ lastLookup.result = NoMatch <=> \A i \in 1..Len(memory) : ~Meets(i)

\* The first entry is 0.85 similar, the second is the text itself: the first
\* is returned.
C13_Witness ==
    /\ LookedUp
    /\ Len(memory) = 2
    /\ Meets(1) /\ SimilarityTo(1) = [num |-> 17, den |-> 20]
    /\ Meets(2) /\ SimilarityTo(2) = One
    /\ memory[1].target # memory[2].target
    /\ lastLookup.result = Match(memory[1], SimilarityTo(1))


\* The texts of the latest call that a backend translated successfully.
BackendSuccesses(call) ==
    {text \in DOMAIN call.results \cap Requested(call.requests) :
        call.results[text].success /\ ~call.results[text].cached}

InMemory(entries, sourceLang, text, targetLang) ==
    \E i \in 1..Len(entries) :
        /\ entries[i].source = text
        /\ entries[i].sourceLang = sourceLang
        /\ entries[i].targetLang = targetLang

\* C15: every successful backend translation, obtained through translate or
\* through translateBatch on any backend, is written through to both the
\* session cache and the translation memory.
C15_WriteThrough ==
    [][calls' # calls =>
          \A text \in BackendSuccesses(lastCall') :
              /\ CacheKey(lastCall'.source, text, lastCall'.target) \in DOMAIN cache'
              /\ cache'[CacheKey(lastCall'.source, text, lastCall'.target)]
                    = lastCall'.results[text].text
              /\ InMemory(memory', lastCall'.source, text, lastCall'.target)]_vars


\* ------------------------------------------------- claims: the memory file

\* C16: if the memory file is absent or cannot be parsed into a
\* {version, entries[]} document, the manager starts with an empty store and
\* the translate calls that follow complete without throwing.
C16_EmptyStoreNoThrow ==
    loaded # "document" =>
        /\ lastCall = NoCall => memory = <<>> /\ memoryKind = "document"
        /\ ~lastCall.threw

\* C17: the entries added by the successful translations of a run are in the
\* memory a TranslationManager constructed after the run loads.
C17_LoadedAfterwards ==
    pc = "later run" =>
        \A s \in succeeded : memoryKind = "document" /\ InMemory(memory, s[1], s[2], s[3])


\* ------------------------------------------------- claims: concurrent calls

\* C14: from a duplicate-free store on, whatever calls of translate,
\* translateBatch and importTranslationMemory are started and however they
\* interleave at their awaits, no two entries of the memory share
\* (source, sourceLang, targetLang).
C14_NoDuplicates ==
    \A i, j \in 1..Len(memory) :
        /\ memory[i].source = memory[j].source
        /\ memory[i].sourceLang = memory[j].sourceLang
        /\ memory[i].targetLang = memory[j].targetLang
        => i = j

\* Two translate calls of the same text were suspended at their backend
\* requests together, both have resumed and returned, and the memory has the
\* text.
C14_Witness ==
    /\ Len(flights) = 2
    /\ \A f \in 1..2 : flights[f].op = "translate" /\ flights[f].phase = "done"
    /\ flights[1].todo = flights[2].todo
    /\ flights[2].overlapped
    /\ Len(memory) = 1
    /\ memory[1].service = "google" /\ memory[1].target = "T"
    /\ <<memory[1].source>> = flights[1].todo


\* ------------------------------------------------- claims: batch requests

\* The texts of the latest call that missed the cache, in input order.
UncachedOfCall ==
    SelectSeq(lastCall.texts,
              LAMBDA t : ~(t \in DOMAIN lastCall.results /\ lastCall.results[t].cached))

\* The k-th of the consecutive chunks of at most 50 of a list.
Chunk(texts, k) ==
    SubSeq(texts, 50 * (k - 1) + 1, IF 50 * k <= Len(texts) THEN 50 * k ELSE Len(texts))

\* C18: on the batch-capable backend with a credential, translateBatch with n
\* uncached texts issues exactly ceil(n/50) requests, which cover the texts
\* in input order in consecutive chunks of at most 50.
C18_Chunks ==
    lastCall.op = "translateBatch" =>
        /\ Len(lastCall.requests) = (Len(UncachedOfCall) + 49) \div 50
        /\ \A k \in 1..Len(lastCall.requests) :
              /\ lastCall.requests[k].service = "deepl"
              /\ lastCall.requests[k].texts = Chunk(UncachedOfCall, k)

\* 120 uncached texts went out as 50, 50 and 20.
C18_Witness ==
    /\ lastCall.op = "translateBatch"
    /\ Len(UncachedOfCall) = 120
    /\ Len(lastCall.requests) = 3
    /\ Len(lastCall.requests[1].texts) = 50
    /\ Len(lastCall.requests[2].texts) = 50
    /\ Len(lastCall.requests[3].texts) = 20

\* C19: when a batch request fails, every item of that batch is reported
\* failed with the error of that request, and only the items of that batch:
\* every batch is sent, and the items of a batch that was answered have the
\* translations of its own response.
C19_FailureConfined ==
    lastCall.op = "translateBatch" =>
        /\ Len(lastCall.requests) = (Len(UncachedOfCall) + 49) \div 50
        /\ \A k \in 1..Len(lastCall.requests) :
              \A i \in 1..Len(lastCall.requests[k].texts) :
                  lastCall.results[lastCall.requests[k].texts[i]] =
                      IF lastAnswers[k].ok
                      THEN Success(lastAnswers[k].translations[i], FALSE)
                      ELSE Failure(handleApiError(lastAnswers[k], "deepl"))


\* ------------------------------------------- claims: multi-instance backends

\* The instance answered with a translation.
Succeeds(resp) == resp.ok /\ resp.text # ""

\* The instances of the manager's backend.
InstancesNow == Instances(extendedService, apiKey)

\* The latest call went to the backend.
WentToInstances == lastCall.op = "translate" /\ lastCall.requests # <<>>

TheResult == lastCall.results[lastCall.texts[1]]

\* C20: a translate call on a multi-instance backend requests the instances
\* in list order, each at most once, and stops at the first one that answers
\* with a translation; if none does, it fails, with the last error that an
\* instance answered with if there was one.
C20_InstancesInOrder ==
    WentToInstances =>
        /\ Len(lastCall.requests) <= Len(InstancesNow)
        /\ \A k \in 1..Len(lastCall.requests) :
              /\ lastCall.requests[k].instance = InstancesNow[k]
              /\ k < Len(lastCall.requests) => ~Succeeds(lastAnswers[k])
        /\ IF Succeeds(lastAnswers[Len(lastCall.requests)])
           THEN TheResult = Success(lastAnswers[Len(lastCall.requests)].text, FALSE)
           ELSE /\ Len(lastCall.requests) = Len(InstancesNow)
                /\ ~TheResult.success
                /\ \A k \in 1..Len(InstancesNow) :
                      ~lastAnswers[k].ok /\ (\A j \in (k + 1)..Len(InstancesNow) :
                                                lastAnswers[j].ok)
                          => TheResult.error = lastAnswers[k].error

\* Four instances were requested: two answered with different errors, the
\* last one without a translation; the call failed with the later error.
C20_Witness ==
    /\ WentToInstances
    /\ Len(lastCall.requests) = 4
    /\ ~lastAnswers[1].ok /\ ~lastAnswers[3].ok /\ lastAnswers[1].error # lastAnswers[3].error
    /\ lastAnswers[2].ok /\ lastAnswers[4].ok
    /\ ~TheResult.success /\ TheResult.error = lastAnswers[3].error

\* ------------------------------------------------- claims: failing requests

\* The class an error message stands for, for the backend of the given name.
ClassOf(error, name) ==
    CASE error = name \o " API key is invalid or expired" -> "credential"
      [] error = name \o " rate limit exceeded. Please try again later." -> "rate limited"
      [] error = name \o " quota exceeded. Please check your plan limits." -> "quota"
      [] error = name \o " service temporarily unavailable" -> "unavailable"
      [] error = "Network error: Unable to reach " \o name \o " API" -> "unreachable"
      [] OTHER -> "other"

\* The class of a failed request by its HTTP status.
ClassOfStatus(status) ==
    CASE status \in {401, 403} -> "credential"
      [] status = 429 -> "rate limited"
      [] status = 456 -> "quota"
      [] status \in 500..599 -> "unavailable"
      [] status = 0 -> "unreachable"
      [] OTHER -> "other"

BackendName == IF extendedService = "deepl" THEN "DEEPL" ELSE "GOOGLE"

\* The k-th request of the latest call failed.
FailedRequest(k) ==
    /\ k \in 1..Len(lastCall.requests)
    /\ k \in 1..Len(lastAnswers)
    /\ ~lastAnswers[k].ok

\* C21: a failed request to a network backend is reported, for each of its
\* texts, with the error of the class of its HTTP status (401/403 credential,
\* 429 rate limited, 456 quota, 5xx unavailable, no response unreachable), and
\* with the message of the response body for any other status.
C21_Classified ==
    \A k \in 1..Len(lastCall.requests) :
        FailedRequest(k) =>
            \A i \in 1..Len(lastCall.requests[k].texts) :
                LET result == lastCall.results[lastCall.requests[k].texts[i]]
                    answer == lastAnswers[k]
                IN /\ ~result.success
                   /\ ClassOf(result.error, BackendName) = ClassOfStatus(answer.status)
                   /\ ("message" \in DOMAIN answer /\ Truthy(answer.message)
                          /\ ClassOfStatus(answer.status) = "other")
                         => result.error = answer.message

\* ------------------------------------------------- claims: missing credential

\* A call is made while a metered network backend is selected and no
\* credential is configured.
CallWithoutCredential ==
    /\ calls' = calls + 1
    /\ extendedService \in {"deepl", "google"}
    /\ ~apiKey

MissingCredential ==
    IF extendedService = "deepl" THEN "DeepL API key not configured"
    ELSE "Google Cloud Translation API key not configured"

FailedFast(result) == ~result.success /\ result.error = MissingCredential

\* The result is served without the backend: from the session cache or the
\* translation memory, or as the text itself when source and target language
\* are the same.
ServedLocally(call, text) ==
    /\ call.results[text].success
    /\ \/ call.results[text].cached
       \/ call.source = call.target /\ call.results[text].text = text

\* C22: with DeepL or Google selected and no credential configured, translate
\* and translateBatch report every item failed with the missing-credential
\* error and issue no network request.
C22_EveryItemFails ==
    [][CallWithoutCredential =>
          /\ lastCall'.requests = <<>>
          /\ \A text \in DOMAIN lastCall'.results : FailedFast(lastCall'.results[text])]_vars

\* C22, amended: every item that is not served from the cache, the memory or
\* as a same-language text is reported failed with the missing-credential
\* error, and no network request is issued.
C22_FailsFast ==
    [][CallWithoutCredential =>
          /\ lastCall'.requests = <<>>
          /\ \A text \in DOMAIN lastCall'.results :
                FailedFast(lastCall'.results[text]) \/ ServedLocally(lastCall', text)]_vars

C22_Witness ==
    /\ ~apiKey
    /\ extendedService \in {"deepl", "google"}
    /\ lastCall.op = "translateBatch"
    /\ lastCall.requests = <<>>
    /\ \E text \in DOMAIN lastCall.results : FailedFast(lastCall.results[text])
    /\ \E text \in DOMAIN lastCall.results : ServedLocally(lastCall, text)

\* ------------------------------------------------- claims: text transforms

\* The interpolation tokens of a text, in order, by their characters.
TokensOf(text) ==
    LET tokens == SelectSeq(PiecesOf(text), LAMBDA piece : piece \in Tokens)
    IN [k \in 1..Len(tokens) |-> PieceChars(tokens[k])]

\* From index `from` on, out has the tokens from the k-th on as substrings
\* that follow each other without overlapping.
RECURSIVE InOrderFrom(_, _, _, _)
InOrderFrom(out, tokens, k, from) ==
    \/ k > Len(tokens)
    \/ /\ FindFrom(out, tokens[k], from) > 0
       /\ InOrderFrom(out, tokens, k + 1, FindFrom(out, tokens[k], from) + Len(tokens[k]))

\* The characters the selected transform makes of the text.
TransformedChars(service, text) ==
    CASE service = "uppercase" -> UppercaseOf(Preserved(Chars(text)))
      [] service = "leet" -> LeetOf(Preserved(Chars(text)))
      [] service = "reverse" -> ReverseOf(Preserved(Chars(text)))
      [] service = "mirror" -> MirrorOf(Preserved(Chars(text)))
      [] service = "morse" -> MorseOf(Preserved(Chars(text)))
      [] service = "nato" -> NatoOf(Preserved(Chars(text)))

TransformedText == lastCall.results[lastCall.texts[1]]

\* C23: the output of every text transform has the interpolation tokens of
\* its input ({name}, {{name}}, ${name}, %s, %d) verbatim and in their
\* original order.
C23_TokensKept ==
    (lastCall.op = "translate" /\ extendedService \in TransformServices) =>
        /\ TransformedText.success
        /\ TransformedText.text = Join(TransformedChars(extendedService, lastCall.texts[1]))
        /\ InOrderFrom(TransformedChars(extendedService, lastCall.texts[1]),
                       TokensOf(lastCall.texts[1]), 1, 1)

\* ------------------------------------------------- claims: requests and delays

\* The number of events of a kind among the first n.
Count(kind, n) == Cardinality({k \in 1..n : events[k] = kind})

\* C24: on DeepL the delay elapses between every two consecutive batch
\* requests, whether the earlier one was answered or failed.
C24_DelayBetweenBatches ==
    extendedService = "deepl" =>
        \A i, j \in 1..Len(events) :
            (i < j /\ events[i] = "request" /\ events[j] = "request")
                => \E k \in (i + 1)..(j - 1) : events[k] = "elapsed"

\* C25: with an offline backend, translating a text or a batch sends no
\* request to the network and awaits no rate-limit delay.
C25_NoRequestNoDelay ==
    extendedService = "uppercase" =>
        \A k \in 1..Len(events) : events[k] \notin {"request", "delay"}

\* C26: within one translateBatch call, each request is sent only after the
\* previous one has been answered or has failed: at most one is in flight.
C26_OneInFlight ==
    (flights # <<>> /\ flights[1].op = "translateBatch") =>
        \A n \in 0..Len(events) : Count("request", n) - Count("response", n) \in {0, 1}

\* A call on DeepL has sent its third batch request.
C26_Witness ==
    /\ extendedService = "deepl"
    /\ flights # <<>> /\ flights[1].op = "translateBatch"
    /\ Count("request", Len(events)) = MaxBatches
    /\ Len(lastCall.requests) = MaxBatches

\* ------------------------------------------------- claims: the file on disk

\* C27: the merge never throws, whatever the two trees are: a key that is a
\* leaf in one and a subtree in the other, a malformed tree on disk.
C27_MergeNeverThrows == pc # "threw"


\* ------------------------------------------------ claims about Multilingual

\* The configuration in effect keeps every value the constructor was given.
InEffect(cfg) == \A f \in DOMAIN core.options : cfg[f] = core.options[f]

\* C28: the configuration passed to the constructor (sourceLanguage,
\* targetLanguages, translationService, apiKey) is still in effect after
\* init(): the configuration of the instance has those values, and the
\* following run() validates them and generates with them.
C28_ConstructorConfigKept ==
    core.phase \in {"initialized", "ran"} =>
        /\ InEffect(core.config)
        /\ core.result.called => InEffect(core.managerConfig) /\ InEffect(core.components)


\* ------------------------------------ claims about the results of a batch

\* C29: the map translateBatch returns has a result entry for every distinct
\* input text, whatever the backend and whatever the backend answered
\* (success, failed request, a batch response with no or fewer translations).
C29_EntryForEveryText ==
    (lastCall.op = "translateBatch" /\ ~lastCall.threw) =>
        \A i \in 1..Len(lastCall.texts) : lastCall.texts[i] \in DOMAIN lastCall.results


\* ------------------------------------------- claims about switching backend

\* The backends a call invoked for a text that it then reported translated.
ProducersOf(call, text) ==
    {call.requests[k].service :
        k \in {j \in 1..Len(call.requests) :
                  /\ \E i \in 1..Len(call.requests[j].texts) : call.requests[j].texts[i] = text
                  /\ text \in DOMAIN call.results
                  /\ call.results[text].success
                  /\ ~call.results[text].cached}}

\* The call of this step hands back, without asking a backend, the text the
\* previous call obtained for the same text and languages.
HandsBack(text) ==
    /\ lastCall'.source = lastCall.source
    /\ lastCall'.target = lastCall.target
    /\ text \in DOMAIN lastCall'.results
    /\ lastCall'.results[text].success
    /\ lastCall'.results[text].cached
    /\ lastCall'.results[text].text = lastCall.results[text].text

\* C30: after the backend is switched with setService, no later translate or
\* translateBatch call returns a text that the previously selected backend
\* produced.
C30_NothingFromPreviousBackend ==
    [][calls' = calls + 1 =>
          \A text \in DOMAIN lastCall.results :
              (ProducersOf(lastCall, text) # {}
                  /\ ServiceOf(Mgr) \notin ProducersOf(lastCall, text))
                  => ~HandsBack(text)]_vars

=============================================================================
